---- MODULE Spec2Model ----
(***************************************************************************)
(* Duplicate-image scan of dupsleuth.py (the same scan is repeated in      *)
(* dupsleuth2.py and in dupsleuthqt.py's Worker): the worker thread        *)
(* running scan_images, the index image_hashes, the trash mover, the       *)
(* manifest duplicates.txt and the events the worker posts to the window.  *)
(*                                                                         *)
(* A path is the position of a file in the order os.walk lists the tree;   *)
(* tree[p] is what decoding the file at p gives: a fingerprint 1..NumHashes*)
(* or None when Image.open / imagehash.phash raises.  The tree holds the   *)
(* files whose names pass the extension filter, it is changed by nothing   *)
(* but the scan, and the trash lies outside the root.                      *)
(***************************************************************************)
EXTENDS Integers, Sequences, FiniteSets, TLC

\* ---- bounds of the model ----
MaxFiles  == 3      \* image files under the root
NumHashes == 3      \* distinct fingerprints among them
MaxSessions == 2    \* scans started on the directory
MaxEntries == 2     \* directory entries of any name and kind under the root

\* ---- values of the program ----
None   == NumHashes + 1   \* calculate_phash's failure value (return None): no fingerprint
NoPath == 0         \* compare_images' third result on a miss (None)

Hashes   == 1..NumHashes
Contents == Hashes \cup {None}
StaleLine == <<NoPath, NoPath>>   \* a line left in duplicates.txt by an earlier run

VARIABLES
    dirValid,       \* the directory argument names an existing directory
    tree,           \* tree[p]: decode result of the p-th image file under the root
    present,        \* paths at which a file is still in place
    manifest,       \* lines of duplicates.txt, each <<original_file, file_path>>
    manifestExists, \* duplicates.txt exists
    manifest0,      \* duplicates.txt as it was before the scan: <<exists, lines>>
    pc,             \* position of the worker thread in scan_images
    image_hashes,   \* scan_images.image_hashes: fingerprint -> first path seen
    total_files,    \* scan_images.total_files
    scanned_files,  \* scan_images.scanned_files
    files,          \* the listing the processing loop iterates
    pos,            \* number of entries of files the loop has taken
    file_path,      \* scan_images.file_path
    is_duplicate,   \* scan_images.is_duplicate
    new_hash,       \* scan_images.new_hash
    original_file,  \* scan_images.original_file
    dup_file,       \* the manifest handle: "unopened", "open", "closed", "openfail"
    exc,            \* the exception the try block raised, "none" if none
    emitted,        \* the callbacks the worker has posted, in order
    hashed,         \* paths handed to calculate_phash so far
    trashCalls,     \* calls of move_to_trash so far: [path, ok]
    idle,           \* GLib's queue of idle callbacks not yet run, oldest first
    bar_text,       \* DupSleuth.progress_bar: its text
    bar_fraction,   \* DupSleuth.progress_bar: its fraction, <<numerator, denominator>>
    image_list_store, \* DupSleuth.image_list_store: <<duplicate, original>> rows
    status_bar,     \* number of messages pushed on DupSleuth.status_bar
    button_label,   \* label of DupSleuth.button
    main_quit,      \* Gtk.main_quit has been called: the main loop runs no more
    handled,        \* the callbacks the main loop has run, in order
    others,         \* the other scan threads (earlier sessions): their locals
    flushed,        \* number of lines of manifest the file object has written out
    entries,        \* the root's entries by name and kind, in listing order
    walk_pos,       \* number of entries the running os.walk pass has gone past
    counted,        \* entries the counting pass added to total_files
    processed,      \* entries the processing pass handed to compare_images
    connected,      \* callbacks that reach the main loop: Qt signals with a slot
    src_dir,        \* Walmover.src_dir is set
    dest_dir,       \* Walmover.dest_dir is set
    enabled,        \* Walmover's controls: which of them are enabled
    workers,        \* the Worker threads of walmoverqt5 started so far
    signals,        \* signals of those workers queued for the main thread
    closed,         \* Walmover.close() was called
    progress_bar,   \* Walmover.progress_bar: [value, format]
    status_label,   \* Walmover.status_label: its text
    model           \* Walmover.model: number of rows

vars == <<dirValid, tree, present, manifest, manifestExists, manifest0, pc,
          image_hashes, total_files, scanned_files, files, pos, file_path,
          is_duplicate, new_hash, original_file, dup_file, exc, emitted,
          hashed, trashCalls, idle, bar_text, bar_fraction, image_list_store,
          status_bar, button_label, main_quit, handled, others, flushed,
          entries, walk_pos, counted, processed, connected, src_dir,
          dest_dir, enabled, workers, signals, closed, progress_bar,
          status_label, model>>

\* the window's state: changed by the main loop only
sinkVars == <<bar_text, bar_fraction, image_list_store, status_bar,
              button_label, main_quit, handled>>

\* the state of the walk over named entries
walkVars == <<entries, walk_pos, counted, processed>>

\* the state of walmoverqt5: its window and its Worker threads
walmoverVars == <<src_dir, dest_dir, enabled, workers, signals, closed,
                  progress_bar, status_label, model>>

\* ---- helpers ----
Event(t, a, b) == [type |-> t, a |-> a, b |-> b, s |-> ""]

\* a progress bar text: "Initializing...", "Scanning... k/n files" or "Done"
Text(s, k, n) == [s |-> s, k |-> k, n |-> n]

\* the queued call progress_bar.set_text(text)
SetText(text) == [type |-> "set_text", a |-> text.k, b |-> text.n, s |-> text.s]

\* the callbacks the worker can post; in dupsleuthqt.py they are the signals
\* update_status, update_progress, add_duplicate_image and stop_progress_bar
Signals == {"update_status_bar", "update_progress_bar", "add_duplicate_image",
            "stop_progress_bar"}

IsConnected(e) == e.type \in connected

\* GLib.idle_add: each callback the worker posts in a step is queued for the
\* main loop, behind those already waiting; the worker does not wait for it.
\* A Qt signal emitted in the worker thread is queued in the same way for the
\* slot connected to it at that moment, and goes nowhere if there is none.
PostedToSink ==
    idle' = idle \o SelectSeq(SubSeq(emitted', Len(emitted) + 1, Len(emitted')),
                              IsConnected)

\* the file object behind dup_file: open(..., "w") empties the file, write
\* hands the line to the object's buffer, which writes out what it holds when
\* it is full, and leaving the with block writes out the rest
WrittenThrough ==
    IF dup_file' = "open"
    THEN IF dup_file # "open" THEN flushed' = 0
         ELSE IF manifest' # manifest THEN flushed' \in flushed..Len(manifest')
         ELSE flushed' = flushed
    ELSE IF dup_file' = "closed" THEN flushed' = Len(manifest')
    ELSE flushed' = flushed

SeqsUpTo(S, n) == UNION {[1..k -> S] : k \in 0..n}

\* os.walk with the extension filter: the image files under the root, in
\* listing order; nothing at all (and no error) when the root cannot be listed
IsPresent(p) == p \in present

os_walk ==
    IF dirValid THEN SelectSeq([p \in 1..Len(tree) |-> p], IsPresent) ELSE <<>>

\* Image.open + imagehash.phash, any exception (a file that does not decode,
\* a file that is no longer there) turned into None
calculate_phash_coarse(image_path) ==
    IF image_path \in present /\ tree[image_path] # None THEN 1 ELSE None

calculate_phash(image_path) ==
    IF image_path \in present THEN tree[image_path] ELSE None

\* the dict lookup / insert of compare_images; None is a key like any other
compare_images_overwrite(hashes, image_path) ==
    LET h == calculate_phash(image_path) IN
    IF h \in DOMAIN hashes
    THEN [is_duplicate |-> TRUE, new_hash |-> h, original_file |-> hashes[h],
          image_hashes |-> [k \in DOMAIN hashes |->
                               IF k = h THEN image_path ELSE hashes[k]]]
    ELSE [is_duplicate |-> FALSE, new_hash |-> h, original_file |-> NoPath,
          image_hashes |-> [k \in DOMAIN hashes \cup {h} |->
                               IF k = h THEN image_path ELSE hashes[k]]]

compare_images_reset(hashes, image_path) ==
    LET h == calculate_phash(image_path) IN
    IF h \in DOMAIN hashes
    THEN [is_duplicate |-> TRUE, new_hash |-> h, original_file |-> hashes[h],
          image_hashes |-> hashes]
    ELSE [is_duplicate |-> FALSE, new_hash |-> h, original_file |-> NoPath,
          image_hashes |-> [k \in {h} |-> image_path]]

compare_images(hashes, image_path) ==
    LET h == calculate_phash(image_path) IN
    IF h \in DOMAIN hashes
    THEN [is_duplicate |-> TRUE, new_hash |-> h, original_file |-> hashes[h],
          image_hashes |-> hashes]
    ELSE [is_duplicate |-> FALSE, new_hash |-> h, original_file |-> NoPath,
          image_hashes |-> [k \in DOMAIN hashes \cup {h} |->
                               IF k = h THEN image_path ELSE hashes[k]]]

\* send2trash inside try/except: ok is whether send2trash succeeded; the
\* result says what the caller gets back, whether an exception leaves the
\* function, and which files are in place afterwards
move_to_trash_raises(path, ok) ==
    [ret |-> ok, raised |-> ~ok,
     present |-> IF ok THEN present \ {path} ELSE present]

move_to_trash(path, ok) ==
    [ret |-> ok, raised |-> FALSE,
     present |-> IF ok THEN present \ {path} ELSE present]

\* ---- initial state: window built, worker thread about to run ----
ScanInit ==
    /\ dirValid \in BOOLEAN
    /\ tree \in SeqsUpTo(Contents, MaxFiles)
    /\ (~dirValid => tree = <<>>)
    /\ present = 1..Len(tree)
    /\ manifest0 \in {<<FALSE, <<>>>>, <<TRUE, <<StaleLine>>>>}
    /\ manifestExists = manifest0[1]
    /\ manifest = manifest0[2]
    /\ pc = "count"
    /\ image_hashes = [k \in {} |-> NoPath]
    /\ total_files = 0
    /\ scanned_files = 0
    /\ files = <<>>
    /\ pos = 0
    /\ file_path = NoPath
    /\ is_duplicate = FALSE
    /\ new_hash = None
    /\ original_file = NoPath
    /\ dup_file = "unopened"
    /\ exc = "none"
    /\ emitted = <<>>
    /\ hashed = {}
    /\ trashCalls = <<>>
    /\ idle = <<>>
    /\ bar_text = Text("Initializing", 0, 0)
    /\ bar_fraction = <<0, 1>>
    /\ image_list_store = <<>>
    /\ status_bar = 0
    /\ button_label = "Done"
    /\ main_quit = FALSE
    /\ handled = <<>>
    /\ others = <<>>
    /\ flushed = Len(manifest)

\* Walmover.__init__: no directory chosen, Start and Cancel disabled, no Worker
Controls == {"start", "src", "dest", "done", "cancel"}

WalmoverInit ==
    /\ src_dir = FALSE
    /\ dest_dir = FALSE
    /\ enabled = [c \in Controls |-> c \in {"src", "dest", "done"}]
    /\ workers = <<>>
    /\ signals = <<>>
    /\ closed = FALSE
    /\ progress_bar = [value |-> 0, format |-> "%p%"]
    /\ status_label = "Ready"
    /\ model = 0

Init ==
    /\ ScanInit
    /\ entries = <<>>
    /\ walk_pos = 0
    /\ counted = {}
    /\ processed = {}
    /\ connected = Signals
    /\ WalmoverInit

\* ---- the worker: scan_images ----

\* the counting pass
CountFiles ==
    /\ pc = "count"
    /\ total_files' = Len(os_walk)
    /\ scanned_files' = 0
    /\ pc' = "open"
    /\ UNCHANGED <<dirValid, tree, present, manifest, manifestExists, manifest0,
                   image_hashes, files, pos, file_path, is_duplicate, new_hash,
                   original_file, dup_file, exc, emitted, hashed, trashCalls>>
    /\ PostedToSink
    /\ WrittenThrough
    /\ UNCHANGED sinkVars
    /\ UNCHANGED others
    /\ UNCHANGED walkVars
    /\ UNCHANGED connected
    /\ UNCHANGED walmoverVars

\* open("duplicates.txt", "w"), then the processing walk starts
OpenManifest_swallow ==
    /\ pc = "open"
    /\ \E ok \in BOOLEAN :
         IF ok
         THEN /\ manifestExists' = TRUE
              /\ manifest' = <<>>
              /\ dup_file' = "open"
              /\ files' = os_walk
              /\ pc' = "loop"
              /\ exc' = exc
         ELSE /\ dup_file' = "openfail"
              /\ files' = os_walk
              /\ pc' = "loop"
              /\ UNCHANGED <<manifest, manifestExists, exc>>
    /\ UNCHANGED <<dirValid, tree, present, manifest0, image_hashes, total_files,
                   scanned_files, pos, file_path, is_duplicate, new_hash,
                   original_file, emitted, hashed, trashCalls>>
    /\ PostedToSink
    /\ WrittenThrough
    /\ UNCHANGED sinkVars
    /\ UNCHANGED others
    /\ UNCHANGED walkVars
    /\ UNCHANGED connected
    /\ UNCHANGED walmoverVars

OpenManifest_append ==
    /\ pc = "open"
    /\ \E ok \in BOOLEAN :
         IF ok
         THEN /\ manifestExists' = TRUE
              /\ manifest' = manifest
              /\ dup_file' = "open"
              /\ files' = os_walk
              /\ pc' = "loop"
              /\ exc' = exc
         ELSE /\ dup_file' = "openfail"
              /\ exc' = "OSError_open"
              /\ pc' = "except"
              /\ UNCHANGED <<manifest, manifestExists, files>>
    /\ UNCHANGED <<dirValid, tree, present, manifest0, image_hashes, total_files,
                   scanned_files, pos, file_path, is_duplicate, new_hash,
                   original_file, emitted, hashed, trashCalls>>
    /\ PostedToSink
    /\ WrittenThrough
    /\ UNCHANGED sinkVars
    /\ UNCHANGED others
    /\ UNCHANGED walkVars
    /\ UNCHANGED connected
    /\ UNCHANGED walmoverVars

OpenManifest ==
    /\ pc = "open"
    /\ \E ok \in BOOLEAN :
         IF ok
         THEN /\ manifestExists' = TRUE
              /\ manifest' = <<>>
              /\ dup_file' = "open"
              /\ files' = os_walk
              /\ pc' = "loop"
              /\ exc' = exc
         ELSE /\ dup_file' = "openfail"
              /\ exc' = "OSError_open"
              /\ pc' = "except"
              /\ UNCHANGED <<manifest, manifestExists, files>>
    /\ UNCHANGED <<dirValid, tree, present, manifest0, image_hashes, total_files,
                   scanned_files, pos, file_path, is_duplicate, new_hash,
                   original_file, emitted, hashed, trashCalls>>
    /\ PostedToSink
    /\ WrittenThrough
    /\ UNCHANGED sinkVars
    /\ UNCHANGED others
    /\ UNCHANGED walkVars
    /\ UNCHANGED connected
    /\ UNCHANGED walmoverVars

\* next file of the loop: compare_images, and on a hit the
\* add_duplicate_image callback is posted
CompareFile_noDupEvent ==
    /\ pc = "loop"
    /\ pos < Len(files)
    /\ LET p == files[pos + 1]
           r == compare_images(image_hashes, p)
       IN /\ file_path' = p
          /\ hashed' = hashed \cup {p}
          /\ is_duplicate' = r.is_duplicate
          /\ new_hash' = r.new_hash
          /\ original_file' = r.original_file
          /\ image_hashes' = r.image_hashes
          /\ emitted' = emitted
          /\ pc' = IF r.is_duplicate THEN "trash" ELSE "progress"
    /\ UNCHANGED <<dirValid, tree, present, manifest, manifestExists, manifest0,
                   total_files, scanned_files, files, pos, dup_file, exc, trashCalls>>
    /\ PostedToSink
    /\ WrittenThrough
    /\ UNCHANGED sinkVars
    /\ UNCHANGED others
    /\ UNCHANGED walkVars
    /\ UNCHANGED connected
    /\ UNCHANGED walmoverVars

CompareFile_stopsOnQuit ==
    /\ pc = "loop"
    /\ ~main_quit
    /\ pos < Len(files)
    /\ LET p == files[pos + 1]
           r == compare_images(image_hashes, p)
       IN /\ file_path' = p
          /\ hashed' = hashed \cup {p}
          /\ is_duplicate' = r.is_duplicate
          /\ new_hash' = r.new_hash
          /\ original_file' = r.original_file
          /\ image_hashes' = r.image_hashes
          /\ emitted' = IF r.is_duplicate
                        THEN Append(emitted,
                                    Event("add_duplicate_image", p, r.original_file))
                        ELSE emitted
          /\ pc' = IF r.is_duplicate THEN "trash" ELSE "progress"
    /\ UNCHANGED <<dirValid, tree, present, manifest, manifestExists, manifest0,
                   total_files, scanned_files, files, pos, dup_file, exc, trashCalls>>
    /\ PostedToSink
    /\ WrittenThrough
    /\ UNCHANGED sinkVars
    /\ UNCHANGED others
    /\ UNCHANGED walkVars
    /\ UNCHANGED connected
    /\ UNCHANGED walmoverVars

CompareFile ==
    /\ pc = "loop"
    /\ pos < Len(files)
    /\ LET p == files[pos + 1]
           r == compare_images(image_hashes, p)
       IN /\ file_path' = p
          /\ hashed' = hashed \cup {p}
          /\ is_duplicate' = r.is_duplicate
          /\ new_hash' = r.new_hash
          /\ original_file' = r.original_file
          /\ image_hashes' = r.image_hashes
          /\ emitted' = IF r.is_duplicate
                        THEN Append(emitted,
                                    Event("add_duplicate_image", p, r.original_file))
                        ELSE emitted
          /\ pc' = IF r.is_duplicate THEN "trash" ELSE "progress"
    /\ UNCHANGED <<dirValid, tree, present, manifest, manifestExists, manifest0,
                   total_files, scanned_files, files, pos, dup_file, exc, trashCalls>>
    /\ PostedToSink
    /\ WrittenThrough
    /\ UNCHANGED sinkVars
    /\ UNCHANGED others
    /\ UNCHANGED walkVars
    /\ UNCHANGED connected
    /\ UNCHANGED walmoverVars

\* if move_to_trash(file_path): dup_file.write(...)
TrashDuplicate_writeAlways ==
    /\ pc = "trash"
    /\ \E ok \in BOOLEAN, wrote \in BOOLEAN :
         LET m == move_to_trash(file_path, ok /\ file_path \in present) IN
         /\ trashCalls' = Append(trashCalls, [path |-> file_path, ok |-> m.ret])
         /\ present' = m.present
         /\ IF m.raised
            THEN /\ exc' = "trash" /\ dup_file' = "closed" /\ pc' = "except"
                 /\ manifest' = manifest
            ELSE IF wrote
                 THEN /\ manifest' = Append(manifest, <<original_file, file_path>>)
                      /\ pc' = "progress"
                      /\ UNCHANGED <<exc, dup_file>>
                 ELSE /\ exc' = "write" /\ dup_file' = "closed" /\ pc' = "except"
                      /\ manifest' = manifest
    /\ UNCHANGED <<dirValid, tree, manifestExists, manifest0, image_hashes,
                   total_files, scanned_files, files, pos, file_path, is_duplicate,
                   new_hash, original_file, emitted, hashed>>
    /\ PostedToSink
    /\ WrittenThrough
    /\ UNCHANGED sinkVars
    /\ UNCHANGED others
    /\ UNCHANGED walkVars
    /\ UNCHANGED connected
    /\ UNCHANGED walmoverVars

TrashDuplicate_retryOnce ==
    /\ pc = "trash"
    /\ \E ok \in BOOLEAN, wrote \in BOOLEAN :
         LET m == move_to_trash(file_path, ok /\ file_path \in present) IN
         /\ trashCalls' = IF m.ret
                           THEN Append(trashCalls, [path |-> file_path, ok |-> TRUE])
                           ELSE trashCalls \o <<[path |-> file_path, ok |-> FALSE],
                                                [path |-> file_path, ok |-> FALSE]>>
         /\ present' = m.present
         /\ IF m.raised
            THEN /\ exc' = "trash" /\ dup_file' = "closed" /\ pc' = "except"
                 /\ manifest' = manifest
            ELSE IF ~m.ret
                 THEN /\ pc' = "progress"
                      /\ UNCHANGED <<manifest, exc, dup_file>>
                 ELSE IF wrote
                      THEN /\ manifest' = Append(manifest, <<original_file, file_path>>)
                           /\ pc' = "progress"
                           /\ UNCHANGED <<exc, dup_file>>
                      ELSE /\ exc' = "write" /\ dup_file' = "closed" /\ pc' = "except"
                           /\ manifest' = manifest
    /\ UNCHANGED <<dirValid, tree, manifestExists, manifest0, image_hashes,
                   total_files, scanned_files, files, pos, file_path, is_duplicate,
                   new_hash, original_file, emitted, hashed>>
    /\ PostedToSink
    /\ WrittenThrough
    /\ UNCHANGED sinkVars
    /\ UNCHANGED others
    /\ UNCHANGED walkVars
    /\ UNCHANGED connected
    /\ UNCHANGED walmoverVars

TrashDuplicate_trashOriginal ==
    /\ pc = "trash"
    /\ \E ok \in BOOLEAN, wrote \in BOOLEAN :
         LET m == move_to_trash(original_file, ok /\ original_file \in present) IN
         /\ trashCalls' = Append(trashCalls, [path |-> original_file, ok |-> m.ret])
         /\ present' = m.present
         /\ IF m.raised
            THEN /\ exc' = "trash" /\ dup_file' = "closed" /\ pc' = "except"
                 /\ manifest' = manifest
            ELSE IF ~m.ret
                 THEN /\ pc' = "progress"
                      /\ UNCHANGED <<manifest, exc, dup_file>>
                 ELSE IF wrote
                      THEN /\ manifest' = Append(manifest, <<original_file, file_path>>)
                           /\ pc' = "progress"
                           /\ UNCHANGED <<exc, dup_file>>
                      ELSE /\ exc' = "write" /\ dup_file' = "closed" /\ pc' = "except"
                           /\ manifest' = manifest
    /\ UNCHANGED <<dirValid, tree, manifestExists, manifest0, image_hashes,
                   total_files, scanned_files, files, pos, file_path, is_duplicate,
                   new_hash, original_file, emitted, hashed>>
    /\ PostedToSink
    /\ WrittenThrough
    /\ UNCHANGED sinkVars
    /\ UNCHANGED others
    /\ UNCHANGED walkVars
    /\ UNCHANGED connected
    /\ UNCHANGED walmoverVars

TrashDuplicate ==
    /\ pc = "trash"
    /\ \E ok \in BOOLEAN, wrote \in BOOLEAN :
         LET m == move_to_trash(file_path, ok /\ file_path \in present) IN
         /\ trashCalls' = Append(trashCalls, [path |-> file_path, ok |-> m.ret])
         /\ present' = m.present
         /\ IF m.raised
            THEN /\ exc' = "trash" /\ dup_file' = "closed" /\ pc' = "except"
                 /\ manifest' = manifest
            ELSE IF ~m.ret
                 THEN /\ pc' = "progress"
                      /\ UNCHANGED <<manifest, exc, dup_file>>
                 ELSE IF wrote
                      THEN /\ manifest' = Append(manifest, <<original_file, file_path>>)
                           /\ pc' = "progress"
                           /\ UNCHANGED <<exc, dup_file>>
                      ELSE /\ exc' = "write" /\ dup_file' = "closed" /\ pc' = "except"
                           /\ manifest' = manifest
    /\ UNCHANGED <<dirValid, tree, manifestExists, manifest0, image_hashes,
                   total_files, scanned_files, files, pos, file_path, is_duplicate,
                   new_hash, original_file, emitted, hashed>>
    /\ PostedToSink
    /\ WrittenThrough
    /\ UNCHANGED sinkVars
    /\ UNCHANGED others
    /\ UNCHANGED walkVars
    /\ UNCHANGED connected
    /\ UNCHANGED walmoverVars

\* scanned_files += 1; scanned_files / total_files; post update_progress_bar
UpdateProgress_blocking ==
    /\ pc = "progress"
    /\ idle = <<>>
    /\ pos' = pos + 1
    /\ scanned_files' = scanned_files + 1
    /\ IF total_files = 0
       THEN /\ exc' = "ZeroDivisionError" /\ dup_file' = "closed"
            /\ pc' = "except" /\ emitted' = emitted
       ELSE /\ emitted' = Append(emitted,
                  Event("update_progress_bar", scanned_files + 1, total_files))
            /\ pc' = "loop"
            /\ UNCHANGED <<exc, dup_file>>
    /\ UNCHANGED <<dirValid, tree, present, manifest, manifestExists, manifest0,
                   image_hashes, total_files, files, file_path, is_duplicate,
                   new_hash, original_file, hashed, trashCalls>>
    /\ PostedToSink
    /\ WrittenThrough
    /\ UNCHANGED sinkVars
    /\ UNCHANGED others
    /\ UNCHANGED walkVars
    /\ UNCHANGED connected
    /\ UNCHANGED walmoverVars

UpdateProgress_skipFailed ==
    /\ pc = "progress"
    /\ pos' = pos + 1
    /\ IF new_hash = None
       THEN /\ pc' = "loop"
            /\ UNCHANGED <<scanned_files, emitted, exc, dup_file>>
       ELSE /\ scanned_files' = scanned_files + 1
            /\ IF total_files = 0
               THEN /\ exc' = "ZeroDivisionError" /\ dup_file' = "closed"
                    /\ pc' = "except" /\ emitted' = emitted
               ELSE /\ emitted' = Append(emitted,
                          Event("update_progress_bar", scanned_files + 1, total_files))
                    /\ pc' = "loop"
                    /\ UNCHANGED <<exc, dup_file>>
    /\ UNCHANGED <<dirValid, tree, present, manifest, manifestExists, manifest0,
                   image_hashes, total_files, files, file_path, is_duplicate,
                   new_hash, original_file, hashed, trashCalls>>
    /\ PostedToSink
    /\ WrittenThrough
    /\ UNCHANGED sinkVars
    /\ UNCHANGED others
    /\ UNCHANGED walkVars
    /\ UNCHANGED connected
    /\ UNCHANGED walmoverVars

UpdateProgress_runningTotal ==
    /\ pc = "progress"
    /\ pos' = pos + 1
    /\ scanned_files' = scanned_files + 1
    /\ IF total_files = 0
       THEN /\ exc' = "ZeroDivisionError" /\ dup_file' = "closed"
            /\ pc' = "except" /\ emitted' = emitted
       ELSE /\ emitted' = Append(emitted,
                  Event("update_progress_bar", scanned_files + 1, scanned_files + 1))
            /\ pc' = "loop"
            /\ UNCHANGED <<exc, dup_file>>
    /\ UNCHANGED <<dirValid, tree, present, manifest, manifestExists, manifest0,
                   image_hashes, total_files, files, file_path, is_duplicate,
                   new_hash, original_file, hashed, trashCalls>>
    /\ PostedToSink
    /\ WrittenThrough
    /\ UNCHANGED sinkVars
    /\ UNCHANGED others
    /\ UNCHANGED walkVars
    /\ UNCHANGED connected
    /\ UNCHANGED walmoverVars

UpdateProgress ==
    /\ pc = "progress"
    /\ pos' = pos + 1
    /\ scanned_files' = scanned_files + 1
    /\ IF total_files = 0
       THEN /\ exc' = "ZeroDivisionError" /\ dup_file' = "closed"
            /\ pc' = "except" /\ emitted' = emitted
       ELSE /\ emitted' = Append(emitted,
                  Event("update_progress_bar", scanned_files + 1, total_files))
            /\ pc' = "loop"
            /\ UNCHANGED <<exc, dup_file>>
    /\ UNCHANGED <<dirValid, tree, present, manifest, manifestExists, manifest0,
                   image_hashes, total_files, files, file_path, is_duplicate,
                   new_hash, original_file, hashed, trashCalls>>
    /\ PostedToSink
    /\ WrittenThrough
    /\ UNCHANGED sinkVars
    /\ UNCHANGED others
    /\ UNCHANGED walkVars
    /\ UNCHANGED connected
    /\ UNCHANGED walmoverVars

\* the walk is exhausted: the with block closes the manifest
EndLoop ==
    /\ pc = "loop"
    /\ pos = Len(files)
    /\ dup_file' = "closed"
    /\ pc' = "finally"
    /\ UNCHANGED <<dirValid, tree, present, manifest, manifestExists, manifest0,
                   image_hashes, total_files, scanned_files, files, pos, file_path,
                   is_duplicate, new_hash, original_file, exc, emitted, hashed,
                   trashCalls>>
    /\ PostedToSink
    /\ WrittenThrough
    /\ UNCHANGED sinkVars
    /\ UNCHANGED others
    /\ UNCHANGED walkVars
    /\ UNCHANGED connected
    /\ UNCHANGED walmoverVars

\* except Exception: post update_status_bar
ExceptHandler_noFinally ==
    /\ pc = "except"
    /\ emitted' = Append(emitted, Event("update_status_bar", NoPath, NoPath))
    /\ pc' = "done"
    /\ UNCHANGED <<dirValid, tree, present, manifest, manifestExists, manifest0,
                   image_hashes, total_files, scanned_files, files, pos, file_path,
                   is_duplicate, new_hash, original_file, dup_file, exc, hashed,
                   trashCalls>>
    /\ PostedToSink
    /\ WrittenThrough
    /\ UNCHANGED sinkVars
    /\ UNCHANGED others
    /\ UNCHANGED walkVars
    /\ UNCHANGED connected
    /\ UNCHANGED walmoverVars

ExceptHandler_resume ==
    /\ pc = "except"
    /\ emitted' = Append(emitted, Event("update_status_bar", NoPath, NoPath))
    /\ pc' = "loop"
    /\ UNCHANGED <<dirValid, tree, present, manifest, manifestExists, manifest0,
                   image_hashes, total_files, scanned_files, files, pos, file_path,
                   is_duplicate, new_hash, original_file, dup_file, exc, hashed,
                   trashCalls>>
    /\ PostedToSink
    /\ WrittenThrough
    /\ UNCHANGED sinkVars
    /\ UNCHANGED others
    /\ UNCHANGED walkVars
    /\ UNCHANGED connected
    /\ UNCHANGED walmoverVars

ExceptHandler ==
    /\ pc = "except"
    /\ emitted' = Append(emitted, Event("update_status_bar", NoPath, NoPath))
    /\ pc' = "finally"
    /\ UNCHANGED <<dirValid, tree, present, manifest, manifestExists, manifest0,
                   image_hashes, total_files, scanned_files, files, pos, file_path,
                   is_duplicate, new_hash, original_file, dup_file, exc, hashed,
                   trashCalls>>
    /\ PostedToSink
    /\ WrittenThrough
    /\ UNCHANGED sinkVars
    /\ UNCHANGED others
    /\ UNCHANGED walkVars
    /\ UNCHANGED connected
    /\ UNCHANGED walmoverVars

\* finally: post stop_progress_bar
Finally ==
    /\ pc = "finally"
    /\ emitted' = Append(emitted, Event("stop_progress_bar", NoPath, NoPath))
    /\ pc' = "done"
    /\ UNCHANGED <<dirValid, tree, present, manifest, manifestExists, manifest0,
                   image_hashes, total_files, scanned_files, files, pos, file_path,
                   is_duplicate, new_hash, original_file, dup_file, exc, hashed,
                   trashCalls>>
    /\ PostedToSink
    /\ WrittenThrough
    /\ UNCHANGED sinkVars
    /\ UNCHANGED others
    /\ UNCHANGED walkVars
    /\ UNCHANGED connected
    /\ UNCHANGED walmoverVars

Next ==
    \/ CountFiles
    \/ OpenManifest
    \/ CompareFile
    \/ TrashDuplicate
    \/ UpdateProgress
    \/ EndLoop
    \/ ExceptHandler
    \/ Finally

Spec == Init /\ [][Next]_vars

\* the worker is an ordinary thread that runs until scan_images returns
FairSpec == Spec /\ WF_vars(Next)

\* ---- the window: callbacks run by the GTK main loop ----

\* DupSleuth.update_progress_bar: the callbacks it queues
update_progress_bar(text, fraction) ==
    <<SetText(text), Event("set_fraction", fraction[1], fraction[2])>>

\* DupSleuth.update_status_bar: the callback it queues
update_status_bar == <<Event("push", 0, 0)>>

\* DupSleuth.stop_progress_bar: the callbacks it queues
stop_progress_bar ==
    update_progress_bar(Text("Done", 0, 0), <<1, 1>>) \o <<Event("set_label", 0, 0)>>

\* DupSleuth.add_duplicate_image: the rows of image_list_store afterwards; a
\* row is added when the file is still at image_path and the pixbuf loads
add_duplicate_image(image_path, original) ==
    IF image_path \in present /\ tree[image_path] # None
    THEN Append(image_list_store, <<image_path, original>>)
    ELSE image_list_store

\* the main loop runs one idle callback; callbacks queued meanwhile go behind
\* those already waiting
DispatchIdle_lifo ==
    /\ ~main_quit
    /\ idle # <<>>
    /\ LET cb   == idle[Len(idle)]
           rest == SubSeq(idle, 1, Len(idle) - 1)
       IN /\ handled' = Append(handled, cb)
          /\ idle' = rest \o
                (CASE cb.type = "update_progress_bar" ->
                         update_progress_bar(Text("Scanning", cb.a, cb.b), <<cb.a, cb.b>>)
                   [] cb.type = "update_status_bar" -> update_status_bar
                   [] cb.type = "stop_progress_bar" -> stop_progress_bar
                   [] OTHER -> <<>>)
          /\ image_list_store' = IF cb.type = "add_duplicate_image"
                                 THEN add_duplicate_image(cb.a, cb.b)
                                 ELSE image_list_store
          /\ bar_text' = IF cb.type = "set_text" THEN Text(cb.s, cb.a, cb.b)
                         ELSE bar_text
          /\ bar_fraction' = IF cb.type = "set_fraction" THEN <<cb.a, cb.b>>
                             ELSE bar_fraction
          /\ status_bar' = IF cb.type = "push" THEN status_bar + 1 ELSE status_bar
          /\ button_label' = IF cb.type = "set_label" THEN "Close" ELSE button_label
    /\ UNCHANGED <<dirValid, tree, present, manifest, manifestExists, manifest0, pc,
                   image_hashes, total_files, scanned_files, files, pos, file_path,
                   is_duplicate, new_hash, original_file, dup_file, exc, emitted,
                   hashed, trashCalls, main_quit, others, flushed>>
    /\ UNCHANGED walkVars
    /\ UNCHANGED connected
    /\ UNCHANGED walmoverVars

DispatchIdle_countsHandled ==
    /\ ~main_quit
    /\ idle # <<>>
    /\ LET cb   == Head(idle)
           rest == Tail(idle)
       IN /\ handled' = Append(handled, cb)
          /\ idle' = rest \o
                (CASE cb.type = "update_progress_bar" ->
                         update_progress_bar(Text("Scanning", cb.a, cb.b), <<cb.a, cb.b>>)
                   [] cb.type = "update_status_bar" -> update_status_bar
                   [] cb.type = "stop_progress_bar" -> stop_progress_bar
                   [] OTHER -> <<>>)
          /\ image_list_store' = IF cb.type = "add_duplicate_image"
                                 THEN add_duplicate_image(cb.a, cb.b)
                                 ELSE image_list_store
          /\ bar_text' = IF cb.type = "set_text" THEN Text(cb.s, cb.a, cb.b)
                         ELSE bar_text
          /\ bar_fraction' = IF cb.type = "set_fraction" THEN <<cb.a, cb.b>>
                             ELSE bar_fraction
          /\ status_bar' = IF cb.type = "push" THEN status_bar + 1 ELSE status_bar
          /\ button_label' = IF cb.type = "set_label" THEN "Close" ELSE button_label
          /\ scanned_files' = IF cb.type = "update_progress_bar" THEN cb.a
                            ELSE scanned_files
    /\ UNCHANGED <<dirValid, tree, present, manifest, manifestExists, manifest0, pc,
                   image_hashes, total_files, files, pos, file_path,
                   is_duplicate, new_hash, original_file, dup_file, exc, emitted,
                   hashed, trashCalls, main_quit, others, flushed>>
    /\ UNCHANGED walkVars
    /\ UNCHANGED connected
    /\ UNCHANGED walmoverVars

DispatchIdle ==
    /\ ~main_quit
    /\ idle # <<>>
    /\ LET cb   == Head(idle)
           rest == Tail(idle)
       IN /\ handled' = Append(handled, cb)
          /\ idle' = rest \o
                (CASE cb.type = "update_progress_bar" ->
                         update_progress_bar(Text("Scanning", cb.a, cb.b), <<cb.a, cb.b>>)
                   [] cb.type = "update_status_bar" -> update_status_bar
                   [] cb.type = "stop_progress_bar" -> stop_progress_bar
                   [] OTHER -> <<>>)
          /\ image_list_store' = IF cb.type = "add_duplicate_image"
                                 THEN add_duplicate_image(cb.a, cb.b)
                                 ELSE image_list_store
          /\ bar_text' = IF cb.type = "set_text" THEN Text(cb.s, cb.a, cb.b)
                         ELSE bar_text
          /\ bar_fraction' = IF cb.type = "set_fraction" THEN <<cb.a, cb.b>>
                             ELSE bar_fraction
          /\ status_bar' = IF cb.type = "push" THEN status_bar + 1 ELSE status_bar
          /\ button_label' = IF cb.type = "set_label" THEN "Close" ELSE button_label
    /\ UNCHANGED <<dirValid, tree, present, manifest, manifestExists, manifest0, pc,
                   image_hashes, total_files, scanned_files, files, pos, file_path,
                   is_duplicate, new_hash, original_file, dup_file, exc, emitted,
                   hashed, trashCalls, main_quit, others, flushed>>
    /\ UNCHANGED walkVars
    /\ UNCHANGED connected
    /\ UNCHANGED walmoverVars

\* the Done / Close button or the window's destroy signal: Gtk.main_quit
on_done_button_clicked ==
    /\ ~main_quit
    /\ main_quit' = TRUE
    /\ UNCHANGED <<dirValid, tree, present, manifest, manifestExists, manifest0, pc,
                   image_hashes, total_files, scanned_files, files, pos, file_path,
                   is_duplicate, new_hash, original_file, dup_file, exc, emitted,
                   hashed, trashCalls, idle, bar_text, bar_fraction,
                   image_list_store, status_bar, button_label, handled, others,
                   flushed>>
    /\ UNCHANGED walkVars
    /\ UNCHANGED connected
    /\ UNCHANGED walmoverVars

\* worker thread and main loop side by side, for a directory that exists and
\* holds copies of one image and undecodable files
GtkInit ==
    /\ Init
    /\ dirValid
    /\ ~manifest0[1]
    /\ \A p \in 1..Len(tree) : tree[p] \in {1, None}

GtkNext ==
    \/ CountFiles
    \/ OpenManifest
    \/ CompareFile
    \/ TrashDuplicate
    \/ UpdateProgress
    \/ EndLoop
    \/ ExceptHandler
    \/ Finally
    \/ DispatchIdle
    \/ on_done_button_clicked

GtkSpec == GtkInit /\ [][GtkNext]_vars

\* the worker thread keeps running; nothing obliges the main loop to run
GtkFairSpec == GtkSpec /\ WF_vars(Next)

\* ---- further scans: dupsleuth2.py's start_scan ----

\* the locals of the scan thread the worker actions above are moving
ThreadContext ==
    [pc |-> pc, image_hashes |-> image_hashes, total_files |-> total_files,
     scanned_files |-> scanned_files, files |-> files, pos |-> pos,
     file_path |-> file_path, is_duplicate |-> is_duplicate,
     new_hash |-> new_hash, original_file |-> original_file,
     dup_file |-> dup_file, exc |-> exc, emitted |-> emitted,
     hashed |-> hashed, trashCalls |-> trashCalls]

\* DupSleuth.start_scan: reset the widgets and start a new thread on
\* scan_images; the thread started before is neither asked nor stopped
start_scan_keepIndex ==
    /\ ~main_quit
    /\ Len(others) + 1 < MaxSessions
    /\ bar_fraction' = <<0, 1>>
    /\ bar_text' = Text("Scanning...", 0, 0)
    /\ image_list_store' = <<>>
    /\ others' = Append(others, ThreadContext)
    /\ pc' = "count"
    /\ image_hashes' = image_hashes
    /\ total_files' = 0
    /\ scanned_files' = 0
    /\ files' = <<>>
    /\ pos' = 0
    /\ file_path' = NoPath
    /\ is_duplicate' = FALSE
    /\ new_hash' = None
    /\ original_file' = NoPath
    /\ dup_file' = "unopened"
    /\ exc' = "none"
    /\ emitted' = <<>>
    /\ hashed' = {}
    /\ trashCalls' = <<>>
    /\ UNCHANGED <<dirValid, tree, present, manifest, manifestExists, manifest0,
                   idle, status_bar, button_label, main_quit, handled, flushed>>
    /\ UNCHANGED walkVars
    /\ UNCHANGED connected
    /\ UNCHANGED walmoverVars

start_scan ==
    /\ ~main_quit
    /\ Len(others) + 1 < MaxSessions
    /\ bar_fraction' = <<0, 1>>
    /\ bar_text' = Text("Scanning...", 0, 0)
    /\ image_list_store' = <<>>
    /\ others' = Append(others, ThreadContext)
    /\ pc' = "count"
    /\ image_hashes' = [k \in {} |-> NoPath]
    /\ total_files' = 0
    /\ scanned_files' = 0
    /\ files' = <<>>
    /\ pos' = 0
    /\ file_path' = NoPath
    /\ is_duplicate' = FALSE
    /\ new_hash' = None
    /\ original_file' = NoPath
    /\ dup_file' = "unopened"
    /\ exc' = "none"
    /\ emitted' = <<>>
    /\ hashed' = {}
    /\ trashCalls' = <<>>
    /\ UNCHANGED <<dirValid, tree, present, manifest, manifestExists, manifest0,
                   idle, status_bar, button_label, main_quit, handled, flushed>>
    /\ UNCHANGED walkVars
    /\ UNCHANGED connected
    /\ UNCHANGED walmoverVars

\* the directory is chosen again after the scan before has returned
rescan ==
    /\ pc = "done"
    /\ start_scan

\* the scheduler runs another scan thread that has not returned yet
SwitchThread ==
    /\ \E i \in 1..Len(others) :
         LET c == others[i] IN
         /\ c.pc # "done"
         /\ others' = [others EXCEPT ![i] = ThreadContext]
         /\ pc' = c.pc
         /\ image_hashes' = c.image_hashes
         /\ total_files' = c.total_files
         /\ scanned_files' = c.scanned_files
         /\ files' = c.files
         /\ pos' = c.pos
         /\ file_path' = c.file_path
         /\ is_duplicate' = c.is_duplicate
         /\ new_hash' = c.new_hash
         /\ original_file' = c.original_file
         /\ dup_file' = c.dup_file
         /\ exc' = c.exc
         /\ emitted' = c.emitted
         /\ hashed' = c.hashed
         /\ trashCalls' = c.trashCalls
    /\ UNCHANGED <<dirValid, tree, present, manifest, manifestExists, manifest0,
                   idle, flushed>>
    /\ UNCHANGED sinkVars
    /\ UNCHANGED walkVars
    /\ UNCHANGED connected
    /\ UNCHANGED walmoverVars

\* one scan after the other
RescanNext ==
    \/ CountFiles
    \/ OpenManifest
    \/ CompareFile
    \/ TrashDuplicate
    \/ UpdateProgress
    \/ EndLoop
    \/ ExceptHandler
    \/ Finally
    \/ rescan

RescanSpec == Init /\ [][RescanNext]_vars

\* scans started at any time, for a directory with at most two files that
\* hold the same image; the initial state is the one after the first
\* start_scan. The two handles on duplicates.txt share the variable manifest:
\* how their lines overwrite each other in the file is not modelled.
ConcurrentInit ==
    /\ Init
    /\ dirValid
    /\ ~manifest0[1]
    /\ Len(tree) <= 2
    /\ \A p \in 1..Len(tree) : tree[p] = 1

ConcurrentNext ==
    \/ CountFiles
    \/ OpenManifest
    \/ CompareFile
    \/ TrashDuplicate
    \/ UpdateProgress
    \/ EndLoop
    \/ ExceptHandler
    \/ Finally
    \/ start_scan
    \/ SwitchThread

ConcurrentSpec == ConcurrentInit /\ [][ConcurrentNext]_vars

\* ---- the walk over named entries: os.walk and the extension test ----

\* file names, a sequence of characters each
Names ==
    { <<"a", ".", "p", "n", "g">>,
      <<"a", ".", "P", "N", "G">>,
      <<"a", ".", "J", "p", "g">>,
      <<"a", ".", "j", "p", "e", "g">>,
      <<".", "j", "p", "g">>,
      <<"a", "p", "n", "g">>,
      <<"a", ".", "p", "n", "g", ".", "t", "x", "t">> }

\* what an entry is: a regular file, a directory, or something else that is
\* not a directory (a FIFO, a socket, a symbolic link that leads nowhere)
Kinds == {"file", "dir", "special"}

\* an entry: its name, its kind, and whether the directory it lies in can be
\* listed (FALSE: os.scandir on that directory raises OSError)
Entries == [name : Names, kind : Kinds, listed : BOOLEAN]

\* str.lower, character by character
lower_char(c) ==
    CASE c = "P" -> "p"
      [] c = "N" -> "n"
      [] c = "G" -> "g"
      [] c = "J" -> "j"
      [] OTHER -> c

lower(name) == [k \in 1..Len(name) |-> lower_char(name[k])]

\* str.endswith with one suffix
endswith(name, suffix) ==
    /\ Len(name) >= Len(suffix)
    /\ SubSeq(name, Len(name) - Len(suffix) + 1, Len(name)) = suffix

\* file_name.lower().endswith((".png", ".jpg", ".jpeg"))
has_image_suffix(file_name) ==
    \/ endswith(lower(file_name), <<".", "p", "n", "g">>)
    \/ endswith(lower(file_name), <<".", "j", "p", "g">>)
    \/ endswith(lower(file_name), <<".", "j", "p", "e", "g">>)

\* the i-th entry is in a files list os.walk yields: every entry of a
\* directory that could be listed and that is not itself a directory; a
\* directory that cannot be listed yields nothing and, with onerror left at
\* None, raises nothing
in_walk_files(i) == entries[i].listed /\ entries[i].kind # "dir"

\* one entry of the counting pass
WalkCount ==
    /\ pc = "count"
    /\ walk_pos < Len(entries)
    /\ walk_pos' = walk_pos + 1
    /\ IF in_walk_files(walk_pos + 1) /\ has_image_suffix(entries[walk_pos + 1].name)
       THEN /\ total_files' = total_files + 1
            /\ counted' = counted \cup {walk_pos + 1}
       ELSE UNCHANGED <<total_files, counted>>
    /\ UNCHANGED <<dirValid, tree, present, manifest, manifestExists, manifest0,
                   pc, image_hashes, scanned_files, files, pos, file_path,
                   is_duplicate, new_hash, original_file, dup_file, exc, emitted,
                   hashed, trashCalls, entries, processed>>
    /\ PostedToSink
    /\ WrittenThrough
    /\ UNCHANGED sinkVars
    /\ UNCHANGED others
    /\ UNCHANGED connected
    /\ UNCHANGED walmoverVars

\* the counting pass is over: scanned_files = 0, duplicates.txt is opened and
\* the second os.walk starts
WalkOpen ==
    /\ pc = "count"
    /\ walk_pos = Len(entries)
    /\ scanned_files' = 0
    /\ manifestExists' = TRUE
    /\ manifest' = <<>>
    /\ dup_file' = "open"
    /\ walk_pos' = 0
    /\ pc' = "loop"
    /\ UNCHANGED <<dirValid, tree, present, manifest0, image_hashes, total_files,
                   files, pos, file_path, is_duplicate, new_hash, original_file,
                   exc, emitted, hashed, trashCalls, entries, counted, processed>>
    /\ PostedToSink
    /\ WrittenThrough
    /\ UNCHANGED sinkVars
    /\ UNCHANGED others
    /\ UNCHANGED connected
    /\ UNCHANGED walmoverVars

\* one entry of the processing pass; every file has a fingerprint of its own
\* here, so compare_images misses and the body goes on to the progress update
WalkProcess ==
    /\ pc = "loop"
    /\ walk_pos < Len(entries)
    /\ walk_pos' = walk_pos + 1
    /\ IF in_walk_files(walk_pos + 1) /\ has_image_suffix(entries[walk_pos + 1].name)
       THEN /\ processed' = processed \cup {walk_pos + 1}
            /\ scanned_files' = scanned_files + 1
            /\ emitted' = Append(emitted,
                  Event("update_progress_bar", scanned_files + 1, total_files))
       ELSE UNCHANGED <<processed, scanned_files, emitted>>
    /\ UNCHANGED <<dirValid, tree, present, manifest, manifestExists, manifest0,
                   pc, image_hashes, total_files, files, pos, file_path,
                   is_duplicate, new_hash, original_file, dup_file, exc, hashed,
                   trashCalls, entries, counted>>
    /\ PostedToSink
    /\ WrittenThrough
    /\ UNCHANGED sinkVars
    /\ UNCHANGED others
    /\ UNCHANGED connected
    /\ UNCHANGED walmoverVars

\* the second walk is exhausted: the with block is left and finally posts
\* stop_progress_bar
WalkEnd ==
    /\ pc = "loop"
    /\ walk_pos = Len(entries)
    /\ dup_file' = "closed"
    /\ emitted' = Append(emitted, Event("stop_progress_bar", NoPath, NoPath))
    /\ pc' = "done"
    /\ UNCHANGED <<dirValid, tree, present, manifest, manifestExists, manifest0,
                   image_hashes, total_files, scanned_files, files, pos, file_path,
                   is_duplicate, new_hash, original_file, exc, hashed, trashCalls>>
    /\ UNCHANGED walkVars
    /\ UNCHANGED connected
    /\ UNCHANGED walmoverVars
    /\ PostedToSink
    /\ WrittenThrough
    /\ UNCHANGED sinkVars
    /\ UNCHANGED others

\* a root that exists, with entries of any name and kind
WalkInit ==
    /\ ScanInit
    /\ dirValid
    /\ tree = <<>>
    /\ ~manifest0[1]
    /\ entries \in SeqsUpTo(Entries, MaxEntries)
    /\ walk_pos = 0
    /\ counted = {}
    /\ processed = {}
    /\ connected = Signals
    /\ WalmoverInit

WalkNext ==
    \/ WalkCount
    \/ WalkOpen
    \/ WalkProcess
    \/ WalkEnd

WalkSpec == WalkInit /\ [][WalkNext]_vars

\* ---- the scans of dupsleuth2.py and dupsleuthqt.py, as functions ----
\* Each takes the tree and, for every file, what send2trash and
\* dup_file.write will do, and gives what its scan_images leaves behind.

\* what happens to a file if it is found to be a duplicate: send2trash moves
\* it and the line is written, send2trash fails, or the write raises
Outcomes == {"moved", "notmoved", "writefails"}

\* how a callback leaves the worker: through GLib.idle_add in dupsleuth2.py,
\* through a Qt signal in dupsleuthqt.py, which hands add_duplicate_image
\* str(file_path) where dupsleuth2.py hands the Path object
post_percent(impl, t, a, b) ==
    IF t = "add_duplicate_image"
    THEN [type |-> t, a |-> a, b |-> b,
          s |-> IF impl = "dupsleuthqt" THEN "str" ELSE "Path"]
    ELSE IF t = "update_progress_bar" /\ impl = "dupsleuthqt"
    THEN Event(t, (100 * a) \div b, 100)
    ELSE Event(t, a, b)

post(impl, t, a, b) ==
    IF t = "add_duplicate_image"
    THEN [type |-> t, a |-> a, b |-> b,
          s |-> IF impl = "dupsleuthqt" THEN "str" ELSE "Path"]
    ELSE Event(t, a, b)

\* calculate_phash of either file, over the files in place during the run
calculate_phash_in(in_place, image_path) ==
    IF image_path \in in_place THEN tree[image_path] ELSE None

\* the body of the loop for one file: compare_images, add_duplicate_image,
\* move_to_trash, dup_file.write, the progress update
scan_file(impl, st, p, outcome) ==
    LET h     == calculate_phash_in(st.present, p)
        hit   == h \in DOMAIN st.image_hashes
        orig  == IF hit THEN st.image_hashes[h] ELSE NoPath
        moved == hit /\ outcome # "notmoved"
        raise == hit /\ outcome = "writefails"
        st1   == [st EXCEPT
                    !.image_hashes =
                        IF hit THEN @
                        ELSE [k \in DOMAIN @ \cup {h} |-> IF k = h THEN p ELSE @[k]],
                    !.emitted =
                        IF hit THEN Append(@, post(impl, "add_duplicate_image", p, orig))
                        ELSE @,
                    !.present = IF moved THEN @ \ {p} ELSE @,
                    !.manifest = IF moved /\ ~raise THEN Append(@, <<orig, p>>) ELSE @,
                    !.exc = IF raise THEN "write" ELSE @]
    IN IF raise THEN st1
       ELSE [st1 EXCEPT
               !.scanned_files = @ + 1,
               !.emitted = Append(@, post(impl, "update_progress_bar",
                                          st.scanned_files + 1, st.total_files))]

\* the loop over the second os.walk, left at the first exception
RECURSIVE scan_loop(_, _, _, _)
scan_loop(impl, st, rest, out) ==
    IF rest = <<>> \/ st.exc # "none" THEN st
    ELSE scan_loop(impl, scan_file(impl, st, Head(rest), out[Head(rest)]),
                   Tail(rest), out)

\* scan_images from its first line to its return
scan_images_of(impl, openOk, out) ==
    LET walk == IF dirValid THEN [p \in 1..Len(tree) |-> p] ELSE <<>>
        st0  == [image_hashes |-> [k \in {} |-> NoPath],
                 total_files |-> Len(walk),
                 scanned_files |-> 0,
                 present |-> 1..Len(tree),
                 manifest |-> IF openOk THEN <<>> ELSE manifest0[2],
                 manifestExists |-> openOk \/ manifest0[1],
                 emitted |-> <<>>,
                 exc |-> IF openOk THEN "none" ELSE "OSError_open"]
        st1  == scan_loop(impl, st0, walk, out)
        st2  == IF st1.exc # "none"
                THEN [st1 EXCEPT !.emitted =
                         Append(@, post(impl, "update_status_bar", NoPath, NoPath))]
                ELSE st1
    IN [st2 EXCEPT !.emitted =
           Append(@, post(impl, "stop_progress_bar", NoPath, NoPath))]

dupsleuth2_scan_images(openOk, out) == scan_images_of("dupsleuth2", openOk, out)

Worker_scan_images(openOk, out) == scan_images_of("dupsleuthqt", openOk, out)

\* ---- a tree that other processes change between the two walks ----

\* before the counting walk or between it and the processing walk, files of
\* the tree are removed from the directory or put (back) into it
OtherProcessChangesTree ==
    /\ pc \in {"count", "open"}
    /\ \E S \in SUBSET (1..Len(tree)) :
         /\ S # present
         /\ present' = S
    /\ UNCHANGED <<dirValid, tree, manifest, manifestExists, manifest0, pc,
                   image_hashes, total_files, scanned_files, files, pos, file_path,
                   is_duplicate, new_hash, original_file, dup_file, exc, emitted,
                   hashed, trashCalls, idle, others, flushed>>
    /\ UNCHANGED sinkVars
    /\ UNCHANGED walkVars
    /\ UNCHANGED connected
    /\ UNCHANGED walmoverVars

ChangingInit ==
    /\ Init
    /\ dirValid
    /\ ~manifest0[1]

ChangingNext ==
    \/ CountFiles
    \/ OpenManifest
    \/ CompareFile
    \/ TrashDuplicate
    \/ UpdateProgress
    \/ EndLoop
    \/ ExceptHandler
    \/ Finally
    \/ OtherProcessChangesTree

ChangingSpec == ChangingInit /\ [][ChangingNext]_vars

\* ---- dupsleuthqt.py: start_scan and the window's slots ----

\* the order in which start_scan connects the worker's signals, which it does
\* after worker_thread.start()
ConnectOrder == <<"update_status_bar", "update_progress_bar",
                  "add_duplicate_image", "stop_progress_bar">>

\* start_scan, running in the main thread beside the started worker: the
\* next connect
ConnectSignal ==
    /\ connected # Signals
    /\ connected' = connected \cup {ConnectOrder[Cardinality(connected) + 1]}
    /\ UNCHANGED <<dirValid, tree, present, manifest, manifestExists, manifest0,
                   pc, image_hashes, total_files, scanned_files, files, pos,
                   file_path, is_duplicate, new_hash, original_file, dup_file,
                   exc, emitted, hashed, trashCalls, idle, others, flushed>>
    /\ UNCHANGED sinkVars
    /\ UNCHANGED walkVars
    /\ UNCHANGED walmoverVars

\* back in the event loop after start_scan, the main thread delivers one
\* queued signal to its slot: add_duplicate_image, update_progress,
\* update_status or stop_progress_bar of the Qt DupSleuth
QtDeliver ==
    /\ connected = Signals
    /\ idle # <<>>
    /\ LET cb == Head(idle)
       IN /\ handled' = Append(handled, cb)
          /\ idle' = Tail(idle)
          /\ image_list_store' = IF cb.type = "add_duplicate_image"
                                 THEN Append(image_list_store, <<cb.a, cb.b>>)
                                 ELSE image_list_store
          /\ bar_text' = CASE cb.type = "update_progress_bar" ->
                                  Text("Scanning", cb.a, cb.b)
                           [] cb.type = "stop_progress_bar" -> Text("Done", 0, 0)
                           [] OTHER -> bar_text
          /\ bar_fraction' = CASE cb.type = "update_progress_bar" ->
                                      <<(100 * cb.a) \div cb.b, 100>>
                               [] cb.type = "stop_progress_bar" -> <<100, 100>>
                               [] OTHER -> bar_fraction
          /\ status_bar' = IF cb.type = "update_status_bar" THEN status_bar + 1
                           ELSE status_bar
    /\ UNCHANGED <<dirValid, tree, present, manifest, manifestExists, manifest0,
                   pc, image_hashes, total_files, scanned_files, files, pos,
                   file_path, is_duplicate, new_hash, original_file, dup_file,
                   exc, emitted, hashed, trashCalls, others, flushed,
                   button_label, main_quit, connected>>
    /\ UNCHANGED walkVars
    /\ UNCHANGED walmoverVars

\* the worker thread has just been started by start_scan and no signal is
\* connected yet; the directory holds copies of one image and undecodable files
QtInit ==
    /\ ScanInit
    /\ dirValid
    /\ ~manifest0[1]
    /\ \A p \in 1..Len(tree) : tree[p] \in {1, None}
    /\ entries = <<>>
    /\ walk_pos = 0
    /\ counted = {}
    /\ processed = {}
    /\ connected = {}
    /\ WalmoverInit

QtNext ==
    \/ CountFiles
    \/ OpenManifest
    \/ CompareFile
    \/ TrashDuplicate
    \/ UpdateProgress
    \/ EndLoop
    \/ ExceptHandler
    \/ Finally
    \/ ConnectSignal
    \/ QtDeliver

QtSpec == QtInit /\ [][QtNext]_vars

\* ---- walmoverqt5.py: the window Walmover and its Worker threads ----

\* everything of the duplicate scanners: walmoverqt5 touches none of it
dupsleuthVars == <<dirValid, tree, present, manifest, manifestExists, manifest0,
                   pc, image_hashes, total_files, scanned_files, files, pos,
                   file_path, is_duplicate, new_hash, original_file, dup_file,
                   exc, emitted, hashed, trashCalls, idle, others, flushed,
                   connected, sinkVars, walkVars>>

\* what the body of run's loop does with one file: Image.open raises, the
\* ratio does not match, the file is copied, it exists at the destination and
\* is skipped, or shutil.copy raises
FileOutcomes == {"open_failed", "no_match", "copied", "skipped", "copy_failed"}

WorkerSignal(i, n, a, b) == [w |-> i, name |-> n, a |-> a, b |-> b]

\* the signals the loop body emits for the file at index idx
emits_for(i, o, idx, total) ==
    CASE o = "open_failed" -> <<>>
      [] o = "copy_failed" -> <<WorkerSignal(i, "error", 0, 0)>>
      [] o = "no_match" -> <<WorkerSignal(i, "progress", idx + 1, total)>>
      [] OTHER -> <<WorkerSignal(i, "image_added", 0, 0),
                    WorkerSignal(i, "progress", idx + 1, total)>>

\* QThread.isRunning(): from start() until the thread has finished
isRunning(w) == w.pc # "stopped"

\* self.thread and self.thread.isRunning()
thread_isRunning == workers # <<>> /\ isRunning(workers[Len(workers)])

\* check_start_conditions, after the directories became s and d
check_start_conditions(s, d) ==
    enabled' = IF s /\ d THEN [enabled EXCEPT !["start"] = TRUE] ELSE enabled

\* Select Source: the dialog returns a directory or nothing
on_src_button_clicked ==
    /\ ~closed
    /\ enabled["src"]
    /\ \E chosen \in BOOLEAN :
         IF chosen
         THEN /\ src_dir' = TRUE
              /\ check_start_conditions(TRUE, dest_dir)
         ELSE UNCHANGED <<src_dir, enabled>>
    /\ UNCHANGED <<dest_dir, workers, signals, closed, progress_bar,
                   status_label, model>>
    /\ UNCHANGED dupsleuthVars

\* Select Destination: the dialog returns a directory or nothing
on_dest_button_clicked ==
    /\ ~closed
    /\ enabled["dest"]
    /\ \E chosen \in BOOLEAN :
         IF chosen
         THEN /\ dest_dir' = TRUE
              /\ check_start_conditions(src_dir, TRUE)
         ELSE UNCHANGED <<dest_dir, enabled>>
    /\ UNCHANGED <<src_dir, workers, signals, closed, progress_bar,
                   status_label, model>>
    /\ UNCHANGED dupsleuthVars

\* Start, without the test of self.thread.isRunning()
on_start_button_clicked_noGuard ==
    /\ ~closed
    /\ enabled["start"]
    /\ Len(workers) < MaxSessions
    /\ \E mkdir_ok \in BOOLEAN :
         IF ~src_dir \/ ~dest_dir \/ ~mkdir_ok
         THEN UNCHANGED <<enabled, workers, progress_bar, status_label, model>>
         ELSE /\ model' = 0
              /\ enabled' = [c \in Controls |-> c = "cancel"]
              /\ progress_bar' = [value |-> 0, format |-> "Starting..."]
              /\ status_label' = "Processing..."
              /\ workers' = Append(workers, [pc |-> "list", idx |-> 0, total |-> 0,
                                             cancelled |-> FALSE, term |-> "none",
                                             notified |-> 0])
    /\ UNCHANGED <<src_dir, dest_dir, signals, closed>>
    /\ UNCHANGED dupsleuthVars

\* Start: returns when a directory is missing, when the last worker is still
\* running or when the destination cannot be created; otherwise clears the
\* list, locks the controls, connects a new Worker's signals and starts it
on_start_button_clicked ==
    /\ ~closed
    /\ enabled["start"]
    /\ Len(workers) < MaxSessions
    /\ \E mkdir_ok \in BOOLEAN :
         IF ~src_dir \/ ~dest_dir \/ thread_isRunning \/ ~mkdir_ok
         THEN UNCHANGED <<enabled, workers, progress_bar, status_label, model>>
         ELSE /\ model' = 0
              /\ enabled' = [c \in Controls |-> c = "cancel"]
              /\ progress_bar' = [value |-> 0, format |-> "Starting..."]
              /\ status_label' = "Processing..."
              /\ workers' = Append(workers, [pc |-> "list", idx |-> 0, total |-> 0,
                                             cancelled |-> FALSE, term |-> "none",
                                             notified |-> 0])
    /\ UNCHANGED <<src_dir, dest_dir, signals, closed>>
    /\ UNCHANGED dupsleuthVars

\* Cancel: sets the running worker's flag and disables itself
on_cancel_button_clicked ==
    /\ ~closed
    /\ enabled["cancel"]
    /\ IF thread_isRunning
       THEN /\ workers' = [workers EXCEPT ![Len(workers)].cancelled = TRUE]
            /\ enabled' = [enabled EXCEPT !["cancel"] = FALSE]
            /\ status_label' = "Cancelling..."
       ELSE UNCHANGED <<workers, enabled, status_label>>
    /\ UNCHANGED <<src_dir, dest_dir, signals, closed, progress_bar, model>>
    /\ UNCHANGED dupsleuthVars

\* Walmover.on_done_button_clicked, the Quit button: a warning while the
\* worker runs, close() otherwise
Walmover_on_done_button_clicked ==
    /\ ~closed
    /\ enabled["done"]
    /\ closed' = ~thread_isRunning
    /\ UNCHANGED <<src_dir, dest_dir, enabled, workers, signals, progress_bar,
                   status_label, model>>
    /\ UNCHANGED dupsleuthVars

\* Worker.run, first statement: list the source directory.  iterdir raises
\* (the directory is gone or unreadable) and the outer except emits error;
\* or there is no image and run emits progress and finished; or the loop starts
WorkerList ==
    /\ \E i \in 1..Len(workers) :
         /\ workers[i].pc = "list"
         /\ \/ /\ workers' = [workers EXCEPT ![i].pc = "returning"]
               /\ signals' = Append(signals, WorkerSignal(i, "error", 0, 0))
            \/ /\ workers' = [workers EXCEPT ![i].pc = "returning",
                                             ![i].term = "finished"]
               /\ signals' = signals \o <<WorkerSignal(i, "progress", 1, 1),
                                          WorkerSignal(i, "finished", 0, 0)>>
            \/ \E n \in 1..MaxFiles :
                 /\ workers' = [workers EXCEPT ![i].pc = "loop", ![i].total = n]
                 /\ UNCHANGED signals
    /\ UNCHANGED <<src_dir, dest_dir, enabled, closed, progress_bar,
                   status_label, model>>
    /\ UNCHANGED dupsleuthVars

\* Worker.run, one turn of the loop: emit cancelled and return when the flag
\* is set, else handle the file; after the last file emit finished
WorkerStep ==
    /\ \E i \in 1..Len(workers) :
         LET w == workers[i]
         IN /\ w.pc = "loop"
            /\ IF w.idx = w.total
               THEN /\ workers' = [workers EXCEPT ![i].pc = "returning",
                                                  ![i].term = "finished"]
                    /\ signals' = Append(signals, WorkerSignal(i, "finished", 0, 0))
               ELSE IF w.cancelled
               THEN /\ workers' = [workers EXCEPT ![i].pc = "returning",
                                                  ![i].term = "cancelled"]
                    /\ signals' = Append(signals, WorkerSignal(i, "cancelled", 0, 0))
               ELSE \E o \in FileOutcomes :
                      /\ workers' = [workers EXCEPT ![i].idx = w.idx + 1]
                      /\ signals' = signals \o emits_for(i, o, w.idx, w.total)
    /\ UNCHANGED <<src_dir, dest_dir, enabled, closed, progress_bar,
                   status_label, model>>
    /\ UNCHANGED dupsleuthVars

\* run has returned: the thread finishes and isRunning() becomes False
WorkerExit ==
    /\ \E i \in 1..Len(workers) :
         /\ workers[i].pc = "returning"
         /\ workers' = [workers EXCEPT ![i].pc = "stopped"]
    /\ UNCHANGED <<src_dir, dest_dir, enabled, signals, closed, progress_bar,
                   status_label, model>>
    /\ UNCHANGED dupsleuthVars

\* the main thread delivers the oldest queued signal to its slot: add_image,
\* update_progress, on_processing_finished, on_processing_cancelled or
\* show_error_dialog
DeliverSignal ==
    /\ signals # <<>>
    /\ LET sig == Head(signals)
           done == sig.name \in {"finished", "cancelled"}
       IN /\ signals' = Tail(signals)
          /\ enabled' = IF done THEN [c \in Controls |-> c # "cancel"] ELSE enabled
          /\ workers' = IF done
                        THEN [workers EXCEPT ![sig.w].notified = @ + 1]
                        ELSE workers
          /\ progress_bar' =
               CASE sig.name = "progress" ->
                      [value |-> (100 * sig.a) \div sig.b, format |-> "%"]
                 [] sig.name = "finished" ->
                      [value |-> 100, format |-> "Processing complete"]
                 [] sig.name = "cancelled" ->
                      [progress_bar EXCEPT !.format = "Cancelled"]
                 [] OTHER -> progress_bar
          /\ status_label' = CASE sig.name = "finished" -> "Complete"
                               [] sig.name = "cancelled" -> "Cancelled"
                               [] OTHER -> status_label
          /\ \E null \in BOOLEAN :
               model' = IF sig.name = "image_added" /\ ~null THEN model + 1
                        ELSE model
    /\ UNCHANGED <<src_dir, dest_dir, closed>>
    /\ UNCHANGED dupsleuthVars

\* walmoverqt5 after the window was built; no duplicate scan takes part
WalmoverStart ==
    /\ ScanInit
    /\ ~dirValid
    /\ ~manifest0[1]
    /\ entries = <<>>
    /\ walk_pos = 0
    /\ counted = {}
    /\ processed = {}
    /\ connected = Signals
    /\ WalmoverInit

WalmoverNext ==
    \/ on_src_button_clicked
    \/ on_dest_button_clicked
    \/ on_start_button_clicked
    \/ on_cancel_button_clicked
    \/ Walmover_on_done_button_clicked
    \/ WorkerList
    \/ WorkerStep
    \/ WorkerExit
    \/ DeliverSignal

WalmoverSpec == WalmoverStart /\ [][WalmoverNext]_vars

TypeOK ==
    /\ dirValid \in BOOLEAN
    /\ pc \in {"count", "open", "loop", "trash", "progress", "except",
               "finally", "done"}
    /\ DOMAIN image_hashes \subseteq Contents
    /\ present \subseteq 1..Len(tree)
    /\ pos \in 0..Len(files)
    /\ dup_file \in {"unopened", "open", "closed", "openfail"}
    /\ exc \in {"none", "OSError_open", "write", "trash", "ZeroDivisionError"}
    /\ Len(others) < MaxSessions
    /\ \A i \in 1..Len(others) :
         /\ others[i].dup_file \in {"unopened", "open", "closed", "openfail"}
         /\ others[i].hashed \subseteq 1..Len(tree)
    /\ connected \subseteq Signals
    /\ enabled \in [Controls -> BOOLEAN]
    /\ Len(workers) <= MaxSessions
    /\ \A i \in 1..Len(workers) :
         /\ workers[i].pc \in {"list", "loop", "returning", "stopped"}
         /\ workers[i].idx \in 0..workers[i].total
         /\ workers[i].total \in 0..MaxFiles
    /\ \A j \in 1..Len(signals) : signals[j].w \in 1..Len(workers)
    /\ progress_bar.value \in 0..100
    /\ model \in 0..MaxFiles

\* ---- vocabulary of the properties ----
Min(S) == CHOOSE x \in S : \A y \in S : x <= y

Last(s) == s[Len(s)]

EventsOf(t) == {i \in 1..Len(emitted) : emitted[i].type = t}

\* the first file handed to the index whose decode result is h
FirstSeen(h) == Min({p \in hashed : tree[p] = h})

\* the step is a lookup of the index (a call of compare_images)
IsLookup == hashed' # hashed

Undecodable(p) == p \in 1..Len(tree) /\ tree[p] = None

SucceededCalls(p) == {i \in 1..Len(trashCalls) :
                         trashCalls[i].path = p /\ trashCalls[i].ok}

LinesFor(p) == {j \in 1..Len(manifest) : manifest[j][2] = p}

ManifestError == exc \in {"OSError_open", "write"}

\* ---- C1 ----
\* C1: once a fingerprint is in the index with path P, the entry stays P in
\* every later state, every lookup that hits returns the first path seen with
\* that fingerprint, and a lookup that hits leaves the index unchanged.
C1_FirstSeenPermanent ==
    /\ [](\A h \in DOMAIN image_hashes : image_hashes[h] = FirstSeen(h))
    /\ []((is_duplicate /\ pc = "trash") =>
             /\ original_file = FirstSeen(new_hash)
             /\ original_file < file_path)
    /\ [][\A h \in DOMAIN image_hashes :
             h \in DOMAIN image_hashes' /\ image_hashes'[h] = image_hashes[h]]_vars
    /\ [][(IsLookup /\ tree[files[pos + 1]] \in DOMAIN image_hashes) =>
             image_hashes' = image_hashes]_vars

\* a third file with the fingerprint of the first two is looked up
C1_Witness ==
    /\ pc = "trash" /\ is_duplicate
    /\ file_path = 3 /\ original_file = 1
    /\ tree[1] \in Hashes /\ tree[2] = tree[1]
    /\ Len(trashCalls) = 1 /\ trashCalls[1].path = 2

\* ---- C2 ----
\* C2: a lookup of a fingerprint that is not in the index adds exactly the
\* entry fingerprint -> that file's path, reports no duplicate and no original
\* path, and keeps every other entry; no step removes a key from the index.
C2_MissInserts ==
    [][/\ DOMAIN image_hashes \subseteq DOMAIN image_hashes'
       /\ (IsLookup /\ tree[files[pos + 1]] \notin DOMAIN image_hashes) =>
             LET p == files[pos + 1] IN
             /\ DOMAIN image_hashes' = DOMAIN image_hashes \cup {tree[p]}
             /\ image_hashes'[tree[p]] = p
             /\ \A k \in DOMAIN image_hashes : image_hashes'[k] = image_hashes[k]
             /\ ~is_duplicate'
             /\ original_file' = NoPath]_vars

\* a second, different fingerprint has just been inserted
C2_Witness ==
    /\ pc = "progress" /\ ~is_duplicate
    /\ file_path >= 2
    /\ Cardinality(DOMAIN image_hashes) >= 2
    /\ image_hashes[new_hash] = file_path

\* ---- C3 ----
\* C3: a file whose fingerprinting fails never is the duplicate or the
\* original of an add_duplicate_image event and never is passed to
\* move_to_trash, and its failure raises nothing in the scan.
C3_UndecodableNeverDuplicate ==
    /\ \A i \in EventsOf("add_duplicate_image") :
          ~Undecodable(emitted[i].a) /\ ~Undecodable(emitted[i].b)
    /\ \A i \in 1..Len(trashCalls) : ~Undecodable(trashCalls[i].path)
    /\ (exc # "none" => ManifestError)

\* ---- C4 ----
\* C4 as claimed: at every point the manifest holds, for each path, exactly as
\* many lines as quarantines of that path have succeeded, each naming the
\* index's original path and the duplicate's path.
C4_LinePerSuccess ==
    \A p \in 1..Len(tree) :
        /\ Cardinality(LinesFor(p)) = Cardinality(SucceededCalls(p))
        /\ \A j \in LinesFor(p) : manifest[j] = <<image_hashes[tree[p]], p>>

\* the write of the line for call i raised (that exception ends the loop, so
\* it can only be the last call)
WriteRaised(i) == exc = "write" /\ i = Len(trashCalls)

\* C4 amended: at every point the manifest holds exactly one line for each
\* quarantine that has succeeded and whose write did not raise, naming the
\* index's original path and the duplicate's path, and no line for a
\* duplicate whose quarantine failed or has not been attempted.
C4_LinePerWrittenSuccess ==
    \A p \in 1..Len(tree) :
        /\ Cardinality(LinesFor(p)) =
              Cardinality({i \in SucceededCalls(p) : ~WriteRaised(i)})
        /\ Cardinality(LinesFor(p)) <= 1
        /\ \A j \in LinesFor(p) : manifest[j] = <<image_hashes[tree[p]], p>>

\* one duplicate moved and recorded, another whose move failed
C4_Witness ==
    /\ dup_file = "open"
    /\ Len(manifest) = 1
    /\ Len(trashCalls) = 2
    /\ trashCalls[1].ok /\ ~trashCalls[2].ok

\* ---- C5 ----
\* C5: a failed quarantine raises nothing, leaves the files, the manifest and
\* the index as they were and takes the scan to the progress update of that
\* file; the file stays in place and out of the manifest afterwards.
C5_FailedQuarantineSkips ==
    /\ [](\A i \in 1..Len(trashCalls) :
             ~trashCalls[i].ok =>
                 /\ trashCalls[i].path \in present
                 /\ LinesFor(trashCalls[i].path) = {})
    /\ [][(Len(trashCalls') > Len(trashCalls) /\ ~Last(trashCalls').ok) =>
             /\ exc' = "none"
             /\ pc' = "progress"
             /\ present' = present
             /\ manifest' = manifest
             /\ image_hashes' = image_hashes]_vars

\* after a failed quarantine the scan has gone on to a later file
C5_Witness ==
    \E i \in 1..Len(trashCalls) :
        /\ ~trashCalls[i].ok
        /\ \E q \in hashed : q > trashCalls[i].path
        /\ exc = "none"

\* ---- C6 ----
\* C6: decode failures and quarantine failures raise nothing in the scan, and
\* unless the manifest cannot be opened or written the session ends with no
\* exception, every file processed and scanned_files = total_files.
C6_PerFileErrorsComplete ==
    /\ [](exc # "none" => ManifestError)
    /\ <>(\/ ManifestError
          \/ /\ pc = "done"
             /\ exc = "none"
             /\ hashed = 1..Len(tree)
             /\ scanned_files = total_files
             /\ EventsOf("update_status_bar") = {})

\* a completed session that met a decode failure and a failed quarantine
C6_Witness ==
    /\ pc = "done" /\ exc = "none"
    /\ scanned_files = total_files /\ total_files >= 3
    /\ \E p \in 1..Len(tree) : tree[p] = None
    /\ \E i \in 1..Len(trashCalls) : ~trashCalls[i].ok

\* ---- C7 ----
\* C7: when a manifest write fails after a successful quarantine, the moved
\* file stays moved and the session still processes every remaining file.
C7_WriteFailureContinues ==
    (pc = "done" /\ exc = "write") =>
        /\ Last(trashCalls).path \notin present
        /\ hashed = 1..Len(tree)

\* ---- C8 ----
\* C8: for a root that is not an existing directory the session reports one
\* error, ends failed, fingerprints and quarantines nothing and leaves
\* duplicates.txt as it was (not created, not truncated).
C8_InvalidRootRejected ==
    (~dirValid /\ pc = "done") =>
        /\ Cardinality(EventsOf("update_status_bar")) = 1
        /\ exc # "none"
        /\ hashed = {}
        /\ trashCalls = <<>>
        /\ <<manifestExists, manifest>> = manifest0

\* ---- C9 ----
\* C9: when duplicates.txt cannot be opened, no file is ever fingerprinted or
\* quarantined, and the session goes on to post one update_status_bar error
\* and then the terminal stop_progress_bar.
C9_OpenFailureAborts ==
    /\ [](dup_file = "openfail" =>
             /\ hashed = {}
             /\ trashCalls = <<>>
             /\ present = 1..Len(tree))
    /\ (dup_file = "openfail") ~>
          (/\ pc = "done"
           /\ Cardinality(EventsOf("update_status_bar")) = 1
           /\ Last(emitted).type = "stop_progress_bar")

\* the open failed for a tree that has files to scan, and the session is over
C9_Witness ==
    /\ dup_file = "openfail" /\ pc = "done"
    /\ Len(tree) >= 2
    /\ Len(emitted) = 2

\* ---- C10 ----
\* C10: the worker posts stop_progress_bar exactly once, when it finishes,
\* whichever way the session ends; it is the last callback the worker posts,
\* and every session does finish.
C10_OneTerminalEventLast ==
    /\ [](Cardinality(EventsOf("stop_progress_bar")) = IF pc = "done" THEN 1 ELSE 0)
    /\ [](EventsOf("stop_progress_bar") \subseteq {Len(emitted)})
    /\ [][EventsOf("stop_progress_bar") # {} => emitted' = emitted]_vars
    /\ <>(pc = "done")

\* a session ended by an exception inside the loop, after other events
C10_Witness ==
    /\ pc = "done" /\ exc = "write"
    /\ Len(emitted) >= 4
    /\ Last(emitted).type = "stop_progress_bar"

\* ---- vocabulary of C11..C20 ----
IsDupEvent(e) == e.type = "add_duplicate_image"

\* the add_duplicate_image callbacks the worker has posted, in order
DupEvents == SelectSeq(emitted, IsDupEvent)

\* p was looked up after another file with the same decode result
Detected(p) == p \in hashed /\ FirstSeen(tree[p]) < p

CallsFor(p) == {i \in 1..Len(trashCalls) : trashCalls[i].path = p}

\* ---- C12 ----
\* C12: nothing is posted before the counting pass has finished, total_files
\* never changes afterwards, and every update_progress_bar carries the number
\* of files the counting pass found.
C12_TotalKnownBeforeProgress ==
    /\ [](pc = "count" => emitted = <<>>)
    /\ [](\A i \in EventsOf("update_progress_bar") :
             emitted[i].b = total_files /\ emitted[i].b = Len(tree))
    /\ [][pc # "count" => total_files' = total_files]_vars

\* two progress events of a session of at least three files
C12_Witness ==
    /\ Cardinality(EventsOf("update_progress_bar")) >= 2
    /\ total_files >= 3
    /\ pc = "loop"

C14_OneQuarantineAttempt ==
    \A p \in 1..Len(tree) :
        Cardinality(CallsFor(p)) =
            IF Detected(p) /\ ~(pc = "trash" /\ file_path = p) THEN 1 ELSE 0

\* a failed attempt, and the session finished without another one for it
C14_Witness ==
    /\ pc = "done" /\ exc = "none"
    /\ Len(trashCalls) = 2
    /\ ~trashCalls[1].ok
    /\ trashCalls[1].path \in present

\* ---- C15 ----
\* a and b hold the same image and no other two files give the same result
OnlyPair(a, b) ==
    /\ a # b
    /\ tree[a] \in Hashes
    /\ \A p, q \in 1..Len(tree) :
          (p # q /\ tree[p] = tree[q]) => {p, q} = {a, b}

\* C15 as claimed, for a scan in which nothing failed: whichever of the two
\* the walk lists first, the finished scan has fired one event with original
\* A and duplicate B, B is gone, A is in place and the manifest is the one
\* line for A and B.
C15_CopyQuarantined ==
    (/\ pc = "done" /\ exc = "none"
     /\ \A i \in 1..Len(trashCalls) : trashCalls[i].ok) =>
        \A a, b \in 1..Len(tree) :
            (OnlyPair(a, b) /\ tree[a] = tree[b]) =>
                /\ DupEvents = <<Event("add_duplicate_image", b, a)>>
                /\ b \notin present
                /\ a \in present
                /\ manifest = <<<<a, b>>>>

\* C15 amended: the file listed first (a) is the original and stays; when
\* duplicates.txt could be opened there is one event, with duplicate b and
\* original a, and one move_to_trash call, for b; b is gone exactly when
\* that call succeeded, and the manifest is the one line for a and b when
\* the call succeeded and the write did not raise, and empty otherwise.
C15_LaterCopyQuarantined ==
    pc = "done" =>
        \A a, b \in 1..Len(tree) :
            (OnlyPair(a, b) /\ tree[a] = tree[b] /\ a < b) =>
                /\ a \in present
                /\ (dup_file = "openfail" => DupEvents = <<>> /\ b \in present)
                /\ (dup_file # "openfail" =>
                      /\ DupEvents = <<Event("add_duplicate_image", b, a)>>
                      /\ Len(trashCalls) = 1
                      /\ trashCalls[1].path = b
                      /\ (b \notin present <=> trashCalls[1].ok)
                      /\ manifest = IF trashCalls[1].ok /\ exc = "none"
                                    THEN <<<<a, b>>>> ELSE <<>>)

\* the copy is listed last, after a unique file, and has been moved
C15_Witness ==
    /\ pc = "done" /\ exc = "none"
    /\ Len(tree) = 3 /\ OnlyPair(1, 3) /\ tree[1] = tree[3]
    /\ present = {1, 2}
    /\ manifest = <<<<1, 3>>>>

\* ---- C16 ----
\* every file decodes and no two files have the same fingerprint
PairwiseDistinct ==
    /\ \A p \in 1..Len(tree) : tree[p] \in Hashes
    /\ \A p, q \in 1..Len(tree) : p # q => tree[p] # tree[q]

\* C16: over files with pairwise distinct fingerprints the scan posts no
\* add_duplicate_image, passes nothing to move_to_trash, leaves every file in
\* place and writes no manifest line.
C16_DistinctNoDuplicates ==
    PairwiseDistinct =>
        /\ DupEvents = <<>>
        /\ ~is_duplicate
        /\ trashCalls = <<>>
        /\ present = 1..Len(tree)
        /\ (dup_file \in {"open", "closed"} => manifest = <<>>)

\* three files with three fingerprints, all scanned
C16_Witness ==
    /\ pc = "done" /\ exc = "none"
    /\ PairwiseDistinct
    /\ Len(tree) = 3 /\ scanned_files = 3

\* ---- C11 ----
IsProgress(e) == e.type = "update_progress_bar"

\* f <= g for fractions <<numerator, denominator>>
FracLeq(f, g) == f[1] * g[2] <= g[1] * f[2]

\* C11: the main loop runs the update_progress_bar callbacks in the order the
\* worker posted them (the N-th one run is file N's), and the fraction and
\* the scanned count shown by the progress bar never decrease.
C11_ProgressInOrder ==
    /\ [](LET hp == SelectSeq(handled, IsProgress)
              ep == SelectSeq(emitted, IsProgress)
          IN /\ Len(hp) <= Len(ep)
             /\ hp = SubSeq(ep, 1, Len(hp))
             /\ \A i \in 1..Len(hp) : hp[i].a = i)
    /\ [][FracLeq(bar_fraction, bar_fraction')]_vars
    /\ [][(bar_text.s = "Scanning" /\ bar_text'.s = "Scanning") =>
             bar_text.k <= bar_text'.k]_vars

\* the bar shows file 2 of 3 while the worker, ahead of the main loop, has
\* posted callbacks that still wait
C11_Witness ==
    /\ bar_fraction = <<2, 3>>
    /\ bar_text = Text("Scanning", 2, 3)
    /\ \E i \in 1..Len(idle) : idle[i].type = "update_progress_bar"
    /\ \E i \in 1..Len(handled) :
          handled[i].type = "set_fraction" /\ handled[i].a = 1

\* ---- C18 ----
\* C18: once cancelling has been asked for (the Done button, the only way
\* the window offers to stop), the worker looks up no further file.
C18_NoNewFileAfterCancel ==
    [][main_quit => hashed' = hashed]_vars

\* ---- C20 ----
\* C20: the worker always has a next step until scan_images returns, whatever
\* waits in the idle queue, and it does return, with stop_progress_bar posted
\* last and (unless the manifest failed) every file looked up, also when the
\* main loop never runs a callback.
C20_PostingNeverBlocks ==
    /\ [](pc # "done" => ENABLED Next)
    /\ <>(/\ pc = "done"
          /\ Last(emitted).type = "stop_progress_bar"
          /\ (ManifestError \/ hashed = 1..Len(tree)))

\* the session is over and not one of its callbacks has been run
C20_Witness ==
    /\ pc = "done" /\ exc = "none"
    /\ handled = <<>>
    /\ idle = emitted
    /\ Len(idle) >= 5
    /\ hashed = 1..Len(tree)

\* ---- C17 ----
\* the scan before this one returned without an exception and every
\* move_to_trash it made succeeded
PreviousScanClean ==
    /\ others # <<>>
    /\ LET prev == Last(others) IN
       /\ prev.pc = "done"
       /\ prev.exc = "none"
       /\ prev.hashed # {}
       /\ \A i \in 1..Len(prev.trashCalls) : prev.trashCalls[i].ok

\* C17: a scan started after a scan that quarantined all its duplicates finds
\* no duplicate and passes nothing to move_to_trash.
C17_RescanFindsNothing ==
    PreviousScanClean =>
        /\ DupEvents = <<>>
        /\ ~is_duplicate
        /\ trashCalls = <<>>
        /\ present = Last(others).hashed \ {Last(others).trashCalls[i].path :
                                               i \in 1..Len(Last(others).trashCalls)}

\* the second scan is over, after a first one that moved two duplicates
C17_Witness ==
    /\ PreviousScanClean
    /\ Len(Last(others).trashCalls) = 2
    /\ pc = "done" /\ exc = "none"
    /\ scanned_files = 1 /\ total_files = 1

\* ---- C19 ----
\* scan threads that have been started and have not returned
ActiveThreads ==
    {0 : x \in IF pc # "done" THEN {0} ELSE {}}
        \cup {i \in 1..Len(others) : others[i].pc # "done"}

\* C19: at most one scan thread is running at any time, so duplicates.txt is
\* never open in two scans at once.
C19_SingleActiveSession ==
    /\ Cardinality(ActiveThreads) <= 1
    /\ \A i \in 1..Len(others) : ~(dup_file = "open" /\ others[i].dup_file = "open")

\* ---- C21 ----
\* what the scan owns: the index, the counters, the walk's position, the
\* manifest and its handle, the files, and the record of what was scanned
coreVars == <<image_hashes, total_files, scanned_files, files, pos, file_path,
              is_duplicate, new_hash, original_file, dup_file, manifest,
              manifestExists, flushed, present, hashed, trashCalls, pc>>

\* the step is one of the main loop: a callback was run or the loop was left
IsSinkStep == handled' # handled \/ main_quit' # main_quit

\* C21: a step of the main loop (running a queued progress, duplicate, status
\* or terminal callback, or quitting) leaves the index, the counters, the
\* manifest and the files as they are, and a step that changes one of those
\* is a step of the worker, which leaves the window's state as it is.
C21_SinkLeavesCore ==
    /\ [][IsSinkStep => UNCHANGED coreVars]_vars
    /\ [][coreVars' # coreVars => UNCHANGED sinkVars]_vars

\* the main loop has run a duplicate callback and a progress callback while
\* the worker holds an index and has not returned
C21_Witness ==
    /\ pc \notin {"count", "done"}
    /\ image_hashes # <<>>
    /\ \E i \in 1..Len(handled) : handled[i].type = "add_duplicate_image"
    /\ \E i \in 1..Len(handled) : handled[i].type = "set_fraction"

\* ---- C22 ----
\* C22: when scan_images has returned, the last callback it posted is the
\* terminal one and carries the number of files scanned and the number of
\* duplicates found (the callback has no further place for the numbers of
\* moves to the trash that succeeded and failed).
C22_TerminalReportsCounts ==
    pc = "done" =>
        /\ Last(emitted).type = "stop_progress_bar"
        /\ Last(emitted).a = scanned_files
        /\ Last(emitted).b = Len(DupEvents)

\* ---- C23 ----
\* the line was written by the scan that is running or has just returned
IsOwnLine(line) ==
    \E i \in 1..Len(trashCalls) :
        /\ trashCalls[i].ok
        /\ trashCalls[i].path = line[2]
        /\ line[1] \in hashed
        /\ line[1] # line[2]

\* C23 as stated: once a scan has returned, whatever came before it,
\* duplicates.txt holds only lines for files that scan moved to the trash.
C23_OnlyLatestLines ==
    pc = "done" => \A j \in 1..Len(manifest) : IsOwnLine(manifest[j])

\* C23: from the moment a scan's open("duplicates.txt", "w") has succeeded,
\* duplicates.txt holds only lines for files that scan moved to the trash;
\* a first scan whose open has not succeeded (not reached yet, or failed)
\* leaves the file exactly as it found it.
C23_FreshAfterOpen ==
    /\ dup_file \in {"open", "closed"} =>
           /\ manifestExists
           /\ \A j \in 1..Len(manifest) : IsOwnLine(manifest[j])
    /\ (others = <<>> /\ dup_file \in {"unopened", "openfail"}) =>
           /\ manifest = manifest0[2]
           /\ manifestExists = manifest0[1]

\* a second scan has returned with a line of its own, after a scan that had
\* written a line too
C23_Witness ==
    /\ others # <<>>
    /\ pc = "done"
    /\ Len(manifest) = 1
    /\ \E i \in 1..Len(Last(others).trashCalls) : Last(others).trashCalls[i].ok
    /\ Last(others).exc = "none"

\* ---- C24 ----
\* C24: while the handle is open every line written has reached the file
\* before the loop goes on to the progress step and the next file, the handle
\* is open only while the worker is inside the with block, and it is closed
\* (with every line in the file) however scan_images returns.
C24_FlushedAndClosed ==
    /\ (dup_file = "open" /\ pc \in {"progress", "loop"}) => flushed = Len(manifest)
    /\ dup_file = "open" => pc \in {"loop", "trash", "progress"}
    /\ pc = "done" => (dup_file \in {"closed", "openfail"} /\ flushed = Len(manifest))

\* ---- C25 ----
\* the update_progress_bar callbacks the worker has posted, in order
ProgressEvents == SelectSeq(emitted, IsProgress)

\* files for which the loop body has run to its end
FullyProcessed == IF pc \in {"trash", "progress"} THEN hashed \ {file_path} ELSE hashed

\* C25: as long as nothing has raised, every file whose loop body has run to
\* its end (unique, duplicate moved, duplicate not moved, undecodable) has
\* added one to scanned_files and posted one update_progress_bar carrying the
\* new count; and no add_duplicate_image is posted for an undecodable file.
C25_OneProgressPerFile ==
    /\ exc = "none" =>
          /\ scanned_files = Cardinality(FullyProcessed)
          /\ Len(ProgressEvents) = scanned_files
          /\ \A k \in 1..Len(ProgressEvents) : ProgressEvents[k].a = k
    /\ \A i \in 1..Len(DupEvents) : ~Undecodable(DupEvents[i].a)

\* ---- C26 ----
\* names that end in .png, .jpg or .jpeg when case is ignored
ImageNames ==
    { <<"a", ".", "p", "n", "g">>,
      <<"a", ".", "P", "N", "G">>,
      <<"a", ".", "J", "p", "g">>,
      <<"a", ".", "j", "p", "e", "g">>,
      <<".", "j", "p", "g">> }

\* C26: among the entries the walk can reach, the ones counted are exactly
\* the regular files whose name ends in .png, .jpg or .jpeg when case is
\* ignored, and when the scan has returned the ones processed are exactly the
\* ones counted.
C26_RegularImageFilesOnly ==
    /\ pc # "count" =>
          \A i \in 1..Len(entries) :
              entries[i].listed =>
                  (i \in counted <=>
                      (entries[i].kind = "file" /\ entries[i].name \in ImageNames))
    /\ pc = "done" => processed = counted

\* ---- C27 ----
\* C27: when the scan has returned, every image file in a directory that
\* could be listed has been processed, none in a directory that could not,
\* and if some directory could not be listed an error callback was posted.
C27_DeniedSubtreeReported ==
    pc = "done" =>
        /\ \A i \in 1..Len(entries) :
              (entries[i].kind = "file" /\ entries[i].name \in ImageNames) =>
                  (i \in processed <=> entries[i].listed)
        /\ (\E i \in 1..Len(entries) : ~entries[i].listed) =>
              \E k \in 1..Len(emitted) : emitted[k].type = "update_status_bar"

\* ---- C28 ----
\* where the session is: 1 Counting (the first os.walk), 2 Scanning (from the
\* open of duplicates.txt to the end of the loop), 3 leaving the try statement
\* (except / finally, the terminal callback not posted yet), 4 terminated
Phase ==
    CASE pc = "count" -> 1
      [] pc \in {"open", "loop", "trash", "progress"} -> 2
      [] pc \in {"except", "finally"} -> 3
      [] pc = "done" -> 4

\* the step fingerprints a file, calls move_to_trash or changes duplicates.txt
IsWork ==
    \/ hashed' # hashed
    \/ image_hashes' # image_hashes
    \/ trashCalls' # trashCalls
    \/ present' # present
    \/ manifest' # manifest

\* C28: the session moves from Counting to Scanning to termination and never
\* back; once terminated nothing changes any more; the terminal callback is
\* posted on entering the terminated state, after a status callback exactly
\* when the scan failed; and files are fingerprinted, moved to the trash and
\* manifest lines written only by steps taken in Scanning.
C28_PhasesInOrder ==
    /\ [][Phase' >= Phase]_vars
    /\ [][pc # "done"]_vars
    /\ [][IsWork => Phase = 2]_vars
    /\ [](Phase = 1 => hashed = {} /\ trashCalls = <<>> /\ emitted = <<>>)
    /\ []((EventsOf("stop_progress_bar") # {}) <=> pc = "done")
    /\ [](pc = "done" => (EventsOf("update_status_bar") # {} <=> exc # "none"))

\* the scan has terminated without exception after moving a duplicate and
\* writing its line
C28_Witness ==
    /\ pc = "done"
    /\ exc = "none"
    /\ \E i \in 1..Len(trashCalls) : trashCalls[i].ok
    /\ Len(manifest) >= 1
    /\ scanned_files = total_files

\* ---- C29 ----
\* what send2trash and dup_file.write did for each file in the scan of
\* dupsleuth.py that has returned
ObservedOutcomes ==
    [p \in 1..Len(tree) |->
        IF SucceededCalls(p) = {} THEN "notmoved"
        ELSE IF exc = "write" /\ Last(trashCalls).path = p THEN "writefails"
        ELSE "moved"]

\* a callback with its path argument as text
EventText(e) == [e EXCEPT !.s = ""]

\* what a scan leaves behind: the callbacks posted, the files in place, the
\* manifest
Outputs(r) ==
    [emitted |-> [k \in 1..Len(r.emitted) |-> EventText(r.emitted[k])],
     present |-> r.present,
     manifest |-> r.manifest,
     manifestExists |-> r.manifestExists,
     scanned_files |-> r.scanned_files,
     total_files |-> r.total_files]

\* C29: when the scan of dupsleuth.py has returned, the scans of
\* dupsleuth2.py and of dupsleuthqt.py, given the same tree, the same listing
\* order and the same outcomes of open, send2trash and write, have posted the
\* same callbacks in the same order, left the same files in place and written
\* the same manifest.
C29_SameAlgorithm ==
    pc = "done" =>
        LET here == Outputs([emitted |-> emitted, present |-> present,
                             manifest |-> manifest,
                             manifestExists |-> manifestExists,
                             scanned_files |-> scanned_files,
                             total_files |-> total_files])
            openOk == dup_file # "openfail"
        IN /\ Outputs(dupsleuth2_scan_images(openOk, ObservedOutcomes)) = here
           /\ Outputs(Worker_scan_images(openOk, ObservedOutcomes)) = here

\* the three scans have returned after two duplicates, one that was moved to
\* the trash and one that was not
C29_Witness ==
    /\ pc = "done"
    /\ exc = "none"
    /\ \E i \in 1..Len(trashCalls) : trashCalls[i].ok
    /\ \E i \in 1..Len(trashCalls) : ~trashCalls[i].ok
    /\ Len(Worker_scan_images(TRUE, ObservedOutcomes).emitted) = Len(emitted)
    /\ Len(DupEvents) = 2

\* ---- C30 ----
\* the files whose decode result is the fingerprint h
FilesWith(h) == {p \in 1..Len(tree) : tree[p] = h}

\* no path the index holds has been passed to move_to_trash, and every
\* fingerprint of the tree still has a file in place
OriginalsStay ==
    /\ \A i \in 1..Len(trashCalls) :
          \A k \in DOMAIN image_hashes : image_hashes[k] # trashCalls[i].path
    /\ \A h \in Hashes : FilesWith(h) # {} => FilesWith(h) \cap present # {}

\* every call of move_to_trash so far has succeeded
AllMovesSucceeded == \A i \in 1..Len(trashCalls) : trashCalls[i].ok

\* C30 as stated: the originals stay, and when the scan has returned and
\* every move to the trash succeeded, exactly the first enumerated file of
\* each fingerprint is in place.
C30_OneFilePerFingerprint ==
    /\ OriginalsStay
    /\ (pc = "done" /\ AllMovesSucceeded) =>
          \A h \in Hashes :
              FilesWith(h) # {} => FilesWith(h) \cap present = {Min(FilesWith(h))}

\* C30: the originals stay, and when the scan has returned without an
\* exception (every file was processed) and every move to the trash
\* succeeded, exactly the first enumerated file of each fingerprint is in
\* place; a scan that was aborted leaves the later copies it did not reach.
C30_OneFilePerFingerprintScanned ==
    /\ OriginalsStay
    /\ (pc = "done" /\ exc = "none" /\ AllMovesSucceeded) =>
          \A h \in Hashes :
              FilesWith(h) # {} => FilesWith(h) \cap present = {Min(FilesWith(h))}
    /\ (pc = "done" /\ exc # "none") =>
          \A p \in 1..Len(tree) : p \notin hashed => p \in present

\* the scan has returned without exception, the later of two copies of one
\* image was moved and a file with another fingerprint was left alone
C30_Witness ==
    /\ pc = "done"
    /\ exc = "none"
    /\ AllMovesSucceeded
    /\ Len(trashCalls) = 1
    /\ Cardinality(present) = 2
    /\ \E h \in Hashes : Cardinality(FilesWith(h)) = 2

\* ---- C32 ----
\* the main loop has nothing left to run for a scan that has returned
Drained == pc = "done" /\ idle = <<>>

\* the set_text calls the main loop has run, in order
IsSetText(e) == e.type = "set_text"

TextsShown == SelectSeq(handled, IsSetText)

\* C32: once the main loop has run every callback of a scan that has
\* returned, the progress bar shows 'Done' and fraction 1 and the button says
\* 'Close'; and no 'Scanning... k/n' text is ever set after 'Done' was set.
C32_DoneShownLast ==
    /\ Drained =>
          /\ bar_text = Text("Done", 0, 0)
          /\ bar_fraction = <<1, 1>>
          /\ button_label = "Close"
    /\ \A i, j \in 1..Len(TextsShown) :
          (i < j /\ TextsShown[i].s = "Done") => TextsShown[j].s = "Done"

\* everything has been run for a scan of two files, the progress callbacks
\* among them
C32_Witness ==
    /\ Drained
    /\ scanned_files = 2
    /\ Len(TextsShown) = 3
    /\ bar_text = Text("Done", 0, 0)

\* ---- C34 ----
\* C34: whenever the loop is between two files or has ended, and nothing has
\* raised, scanned_files is the number of keys of the index plus the number
\* of add_duplicate_image callbacks posted.
C34_ScannedIsKeysPlusDuplicates ==
    (exc = "none" /\ pc \in {"loop", "finally", "done"}) =>
        scanned_files = Cardinality(DOMAIN image_hashes) + Len(DupEvents)

\* a scan has ended with two keys in the index and a duplicate found
C34_Witness ==
    /\ pc = "done"
    /\ exc = "none"
    /\ Cardinality(DOMAIN image_hashes) = 2
    /\ Len(DupEvents) = 1
    /\ scanned_files = 3

\* ---- C35 ----
\* C35: after Gtk.main_quit the main loop runs no callback any more, while
\* the worker goes on: it reaches its return, and unless duplicates.txt could
\* not be opened or written it has then fingerprinted every file.
C35_QuitDoesNotStopWorker ==
    /\ [][main_quit => UNCHANGED sinkVars]_vars
    /\ [](main_quit =>
            <>(pc = "done" /\ (ManifestError \/ hashed = 1..Len(tree))))

\* the main loop has quit before running anything, and the worker has since
\* moved a duplicate to the trash and written its line
C35_Witness ==
    /\ main_quit
    /\ handled = <<>>
    /\ pc = "progress"
    /\ Len(manifest) = 1
    /\ Len(idle) >= 2

\* ---- C36 ----
\* C36: once the main loop has run every callback of a scan of decodable
\* files that has returned, image_list_store has one row for each
\* add_duplicate_image callback the worker posted.
C36_OneRowPerDuplicate ==
    (Drained /\ ~main_quit /\ \A p \in 1..Len(tree) : tree[p] # None) =>
        Len(image_list_store) = Len(DupEvents)

\* ---- C33 ----
\* C33: every update_progress_bar posted carries a scanned count between 1
\* and the total of the counting pass, the total is not zero, and the
\* division scanned_files / total_files never raises.
C33_FractionInRange ==
    /\ \A k \in 1..Len(ProgressEvents) :
          /\ 1 <= ProgressEvents[k].a
          /\ ProgressEvents[k].a <= ProgressEvents[k].b
          /\ ProgressEvents[k].b # 0
    /\ exc # "ZeroDivisionError"

\* ---- C31 ----
\* C31: in a scan that raised nothing, every signal the Qt worker has emitted
\* is either waiting for the main thread or has been delivered to its slot,
\* and once the scan has returned and everything waiting has been delivered
\* the progress bar shows 'Done'.
C31_NoSignalLost ==
    /\ exc = "none" => Len(handled) + Len(idle) = Len(emitted)
    /\ (pc = "done" /\ connected = Signals /\ idle = <<>>) =>
          bar_text = Text("Done", 0, 0)

\* ---- vocabulary of the walmoverqt5 properties ----
Running == {i \in 1..Len(workers) : isRunning(workers[i])}

Locked == ~enabled["start"] /\ ~enabled["src"] /\ ~enabled["dest"] /\ ~enabled["done"]

Unlocked == enabled["start"] /\ enabled["src"] /\ enabled["dest"] /\ enabled["done"]

\* ---- C37 ----
\* C37 as stated: at most one Worker is running, and while one is running
\* start, source, destination and quit are disabled and Cancel is enabled.
C37_OnlyCancelWhileRunning ==
    /\ Cardinality(Running) <= 1
    /\ Running # {} => (Locked /\ enabled["cancel"])

\* C37, amended: at most one Worker is running, and from the start of a worker
\* until the window has handled its finished or cancelled notification start,
\* source, destination and quit are disabled, while Cancel is enabled exactly
\* as long as it has not been clicked.
C37_OneWorkerControlsLocked ==
    /\ Cardinality(Running) <= 1
    /\ (workers # <<>> /\ Last(workers).notified = 0) =>
          /\ Locked
          /\ enabled["cancel"] = ~Last(workers).cancelled

\* the finished notification was handled and Start is enabled again while
\* the thread has not yet finished: a Start request now meets a running worker
C37_Witness ==
    /\ workers # <<>>
    /\ Last(workers).pc = "returning"
    /\ Last(workers).notified = 1
    /\ enabled["start"]

\* ---- C38 ----
\* C38: once a Worker has stopped and the window has handled every queued
\* signal, exactly one finished or cancelled notification of that worker has
\* reached the window, and unless a later worker was started the start,
\* source, destination and quit controls are enabled.
C38_WindowUnlocksAfterRun ==
    \A i \in 1..Len(workers) :
       (workers[i].pc = "stopped" /\ signals = <<>>) =>
          /\ workers[i].notified = 1
          /\ (i = Len(workers) => Unlocked)
====
